---- MODULE Spec2Model ----
(***************************************************************************)
(* Model of the processor's block executor (processor/src/lib.rs), the     *)
(* decoder with its block stack (processor/src/decoder/mod.rs) and the     *)
(* decoder trace with its span cursor (processor/src/decoder/trace.rs).    *)
(*                                                                         *)
(* The recursive executor is unfolded into a machine with an explicit      *)
(* continuation stack `ctl`; every action is one clock cycle of the        *)
(* executor (one execute_op call together with the decoder call that       *)
(* accompanies it) or an error return.                                     *)
(*                                                                         *)
(* Two units are modelled on their own next to the executor: the block     *)
(* stack driven by push and pop alone (BlockStackSpec), and the parsers of *)
(* the assembler's I/O instructions (assembly/src/parsers/io_ops.rs), each *)
(* called once on a token with some operations already in the span         *)
(* (ParseSpec).  LowerSpec lowers one or two memory instructions with      *)
(* these parsers and runs the emitted operations on a stack and a memory.  *)
(***************************************************************************)
EXTENDS Integers, Sequences, FiniteSets, TLC

\* ------------------------------------------------------------------------
\* Program constants
\* ------------------------------------------------------------------------
NUM_OP_BITS == 7
HASHER_WIDTH == 12
OP_BATCH_SIZE == 8
OP_GROUP_SIZE == 9
OP_GROUP_IDX == 0
MIN_STACK_DEPTH == 16

\* ------------------------------------------------------------------------
\* Bounds of the model
\* ------------------------------------------------------------------------
MaxNodes == 5      \* trees over the short spans have at most this many nodes
NumShortSpans == 2 \* the first spans of SpanLib are the short ones
MaxSpanNodes == 3  \* trees over all spans have at most this many nodes
MaxClk == 30       \* executions are cut after this many clock cycles
MaxPadRows == 2    \* into_vec is asked for at most this many rows more
MaxBlockAddr == 3  \* a BlockStack on its own is pushed addresses 1..MaxBlockAddr
MaxBlockCalls == 5 \* and is called at most this many times
MaxParts == 4      \* tokens have at most this many segments
MaxPrior == 1      \* span_ops holds at most this many operations at the call
MaxMemAddr == 1    \* lowered memory instructions use the addresses 0..MaxMemAddr

\* ------------------------------------------------------------------------
\* Field elements.
\* Elements that stay small (addresses, stack items, flags, group counts)
\* are integers; a negative integer -k stands for the field element p - k,
\* which is what a subtraction below ZERO yields in the field.
\* Elements of the hasher-state columns and op groups can be 63 bits wide;
\* they are little-endian sequences of base-2^NUM_OP_BITS digits without
\* trailing zero digits (ZERO is the empty sequence).
\* ------------------------------------------------------------------------
ZERO == 0
ONE == 1
Radix == 2 ^ NUM_OP_BITS

RECURSIVE Strip(_)
Strip(ds) == IF ds = <<>> THEN <<>>
             ELSE IF ds[Len(ds)] = 0 THEN Strip(SubSeq(ds, 1, Len(ds) - 1))
             ELSE ds

\* Felt::new(v) for a small integer v
WideOf(v) == IF v = 0 THEN <<>>
             ELSE IF v < Radix THEN <<v>>
             ELSE <<v % Radix, v \div Radix>>

WZERO == <<>>

\* as_int order on the small representation
AsIntLeq(a, b) == IF a >= 0 /\ b >= 0 THEN a <= b
                  ELSE IF a >= 0 THEN TRUE
                  ELSE IF b >= 0 THEN FALSE
                  ELSE a <= b

\* ------------------------------------------------------------------------
\* Operations
\* ------------------------------------------------------------------------
Op(name) == [name |-> name, imm |-> 0]
Push(v) == [name |-> "Push", imm |-> v]

Noop == Op("Noop")
Pad == Op("Pad")
Incr == Op("Incr")
Drop == Op("Drop")
AssertOp == Op("Assert")
Debug == Op("Debug")
SpanOp == Op("Span")
RespanOp == Op("Respan")
JoinOp == Op("Join")
SplitOp == Op("Split")
EndOp == Op("End")
HaltOp == Op("Halt")

\* Operation::op_code
op_code(op) ==
    CASE op.name = "Noop" -> 0
      [] op.name = "Assert" -> 1
      [] op.name = "Pad" -> 3
      [] op.name = "Incr" -> 5
      [] op.name = "Drop" -> 9
      [] op.name = "Push" -> 17
      [] op.name = "Join" -> 96
      [] op.name = "Split" -> 97
      [] op.name = "Loop" -> 98
      [] op.name = "Span" -> 99
      [] op.name = "Respan" -> 100
      [] op.name = "End" -> 101
      [] op.name = "Halt" -> 127

\* Operation::imm_value().is_some()
has_imm(op) == op.name = "Push"

\* Operation::is_decorator
is_decorator(op) == op.name = "Debug"

\* bits taken from the high end of the opcode
OpBit_reversed(op, i) == (op_code(op) \div (2 ^ (NUM_OP_BITS - 1 - i))) % 2

\* the bits pushed by append_opcode / append_row: (op_code >> i) & 1
OpBit(op, i) == (op_code(op) \div (2 ^ i)) % 2

\* ------------------------------------------------------------------------
\* Span blocks: operations grouped into batches of OP_BATCH_SIZE op groups.
\* An op group packs the opcodes of up to OP_GROUP_SIZE operations, the
\* first in the lowest NUM_OP_BITS bits; the immediate value of an
\* operation takes the next free group slot of the batch.
\* ------------------------------------------------------------------------
NewAcc == [ops |-> <<>>,
           groups |-> [i \in 1..OP_BATCH_SIZE |-> WZERO],
           op_counts |-> [i \in 1..OP_BATCH_SIZE |-> 0],
           group |-> <<>>,
           op_idx |-> 0,
           group_idx |-> 0,
           next_group_idx |-> 1]

can_accept_op(acc, op) ==
    IF has_imm(op)
    THEN IF acc.op_idx < OP_GROUP_SIZE - 1
         THEN acc.next_group_idx < OP_BATCH_SIZE
         ELSE acc.next_group_idx + 1 < OP_BATCH_SIZE
    ELSE acc.op_idx < OP_GROUP_SIZE \/ acc.next_group_idx < OP_BATCH_SIZE

finalize_op_group(acc) ==
    [acc EXCEPT !.groups[acc.group_idx + 1] = Strip(acc.group),
                !.op_counts[acc.group_idx + 1] = acc.op_idx,
                !.group_idx = acc.next_group_idx,
                !.next_group_idx = acc.next_group_idx + 1,
                !.op_idx = 0,
                !.group = <<>>]

add_op(acc, op) ==
    IF is_decorator(op) THEN [acc EXCEPT !.ops = Append(acc.ops, op)] ELSE
    LET a1 == IF acc.op_idx = OP_GROUP_SIZE THEN finalize_op_group(acc) ELSE acc
        a2 == IF has_imm(op) /\ a1.op_idx = OP_GROUP_SIZE - 1
              THEN finalize_op_group(a1) ELSE a1
        a3 == IF has_imm(op)
              THEN [a2 EXCEPT !.groups[a2.next_group_idx + 1] = WideOf(op.imm),
                              !.next_group_idx = a2.next_group_idx + 1]
              ELSE a2
    IN  [a3 EXCEPT !.group = Append(a3.group, op_code(op)),
                   !.ops = Append(a3.ops, op),
                   !.op_idx = a3.op_idx + 1]

into_batch(acc) ==
    LET a == IF Strip(acc.group) # <<>> \/ acc.op_idx # 0
             THEN [acc EXCEPT !.groups[acc.group_idx + 1] = Strip(acc.group),
                              !.op_counts[acc.group_idx + 1] = acc.op_idx]
             ELSE acc
    IN  [ops |-> a.ops, groups |-> a.groups, op_counts |-> a.op_counts,
         num_groups |-> a.next_group_idx]

RECURSIVE BatchOps(_, _, _, _)
BatchOps(ops, i, acc, batches) ==
    IF i > Len(ops) THEN Append(batches, into_batch(acc))
    ELSE IF can_accept_op(acc, ops[i])
         THEN BatchOps(ops, i + 1, add_op(acc, ops[i]), batches)
         ELSE BatchOps(ops, i + 1, add_op(NewAcc, ops[i]),
                       Append(batches, into_batch(acc)))

\* Span::new(ops).op_batches()
SpanNew(ops) == BatchOps(ops, 1, NewAcc, <<>>)

\* usize::next_power_of_two: the first power of two from 1 up that is >= n
next_power_of_two(n) ==
    LET RECURSIVE Npo2From(_)
        Npo2From(k) == IF k >= n THEN k ELSE Npo2From(2 * k)
    IN  Npo2From(1)

\* The spans programs are built from (operation lists handed to Span::new).
\* FullBatch fills one batch of eight groups.  The last span has seven
\* operations with an immediate in one group: the immediate of the last is
\* in the last group slot of the batch.
SpanLib ==
  LET FullBatch == <<Push(2), Push(3), Push(4), Push(5), Push(6), Push(7),
                     Drop, Drop, Drop, Drop>>
  IN <<
    <<Noop>>,
    <<Pad>>,
    <<Pad, Incr>>,
    <<Push(2), Push(3)>>,
    FullBatch \o <<Push(2), Drop>>,
    FullBatch \o FullBatch \o <<Push(2), Drop>>,
    <<Push(2), Push(3), Push(4)>>,
    <<Push(2), Push(3), Push(4), Push(5)>>,
    <<AssertOp>>,
    <<Debug, Pad, Debug, Incr, Debug>>,
    <<Push(2), Debug, Push(3), Debug>>,
    <<Push(2), Push(3), Push(4), Push(5), Push(6), Push(7), Push(2)>>
  >>

\* A batch that breaks the rule of Span::new that an operation with an
\* immediate is never the ninth of its group: eight Drops and a Push share
\* group 0, the immediate is in group 1.
NinthImmBatch ==
    [ops |-> [i \in 1..OP_GROUP_SIZE |->
                 IF i < OP_GROUP_SIZE THEN Drop ELSE Push(2)],
     groups |-> [i \in 1..OP_BATCH_SIZE |->
                 IF i = 1 THEN [k \in 1..OP_GROUP_SIZE |->
                                   IF k < OP_GROUP_SIZE THEN op_code(Drop)
                                   ELSE op_code(Push(2))]
                 ELSE IF i = 2 THEN WideOf(2)
                 ELSE WZERO],
     op_counts |-> [i \in 1..OP_BATCH_SIZE |->
                    IF i = 1 THEN OP_GROUP_SIZE ELSE 0],
     num_groups |-> 2]

\* Span::op_batches of every span programs are built from: the spans of
\* SpanLib, then the span made of NinthImmBatch.
SpanBatches == [s \in 1..Len(SpanLib) |-> SpanNew(SpanLib[s])]
               \o << <<NinthImmBatch>> >>

\* ------------------------------------------------------------------------
\* Code-block trees, stored as the preorder list of their nodes: the first
\* child of node i is node i + 1, the second child follows the subtree of
\* the first.
\* ------------------------------------------------------------------------
NodeSet == [kind : {"Join", "Split", "Loop", "Proxy"}, span : {0}]
           \cup [kind : {"Span"}, span : 1..Len(SpanBatches)]

RECURSIVE SubtreeEnd(_, _)
\* index of the last node of the subtree rooted at node i (0: malformed)
SubtreeEnd(p, i) ==
    IF i < 1 \/ i > Len(p) THEN 0
    ELSE IF p[i].kind \in {"Span", "Proxy"} THEN i
    ELSE IF p[i].kind = "Loop" THEN SubtreeEnd(p, i + 1)
    ELSE LET e == SubtreeEnd(p, i + 1)
         IN  IF e = 0 THEN 0 ELSE SubtreeEnd(p, e + 1)

\* the nodes whose span, if any, is one of the short spans
ShortNodeSet == {nd \in NodeSet : nd.span <= NumShortSpans}

\* the well-formed trees of at most max nodes taken from nodes
Trees(nodes, max) == {p \in UNION {[1..n -> nodes] : n \in 1..max} :
                         SubtreeEnd(p, 1) = Len(p)}

Programs == Trees(ShortNodeSet, MaxNodes) \cup Trees(NodeSet, MaxSpanNodes)

\* Join::first, Split::on_true, Loop::body
FirstChild(p, i) == i + 1
\* Join::second, Split::on_false
SecondChild(p, i) == SubtreeEnd(p, i + 1) + 1

\* CodeBlock::hash as a word
BlockHash(n) == <<WideOf(n), WZERO, WZERO, WZERO>>

\* initial contents of the top of the stack (ProgramInputs::stack_init)
StackVals == 0..2
StackInits == {<<a, b>> : a \in StackVals, b \in StackVals}

VARIABLES
    prog,         \* the script being executed
    stack,        \* Process::stack, top first, at least MIN_STACK_DEPTH deep
    clk,          \* Process::system clock: number of execute_op calls
    hasher,       \* Process::hasher: number of hashes computed so far
    decoder,      \* Process::decoder: block_stack (innermost block last)
                  \* and trace (the DecoderTrace columns and span cursor)
    ctl,          \* what remains to be executed, next step first
    result,       \* outcome of the outermost execute_code_block
    log,          \* calls made so far: blocks entered and left, REPEATs
    trace_out,    \* the columns Decoder::into_trace returned, <<>> before
    blocks,       \* a BlockStack on its own: BlockStack::blocks, last on top
    bs_out,       \* what the last call on that BlockStack returned
    bs_calls,     \* the calls made on that BlockStack, oldest first
    span_ops,     \* assembler: the operations of the span being built
    token,        \* assembler: the text of the Token handed to the parser
    parsed,       \* assembler: what the parser returned (NotCalled before)
    called,       \* assembler: the parser called and span_ops at the call
    source,       \* the tokens of a piece of assembly that is lowered and run
    exec          \* the stack and memory the lowered operations run on

process_vars == <<prog, stack, clk, hasher, decoder, ctl, result, log,
                  trace_out>>

\* the state of the units exercised on their own: a BlockStack, the parsers
unit_vars == <<blocks, bs_out, bs_calls, span_ops, token, parsed, called,
               source, exec>>

vars == <<process_vars, unit_vars>>

\* ------------------------------------------------------------------------
\* Stack and primitive operations
\* ------------------------------------------------------------------------
\* Stack::new
StackNew(init) == init \o [i \in 1..(MIN_STACK_DEPTH - Len(init)) |-> ZERO]

\* Stack::peek
peek(st) == st[1]

\* the effect of Process::execute_op on the stack
ExecOp(st, op) ==
    CASE op.name \in {"Noop", "Debug"} -> st
      [] op.name = "Pad" -> <<ZERO>> \o st
      [] op.name = "Push" -> <<op.imm>> \o st
      [] op.name = "Incr" -> <<st[1] + 1>> \o Tail(st)
      [] op.name \in {"Drop", "Assert"} ->
             IF Len(st) > MIN_STACK_DEPTH THEN Tail(st)
             ELSE Append(Tail(st), ZERO)

\* Process::execute_op returns an error: Assert on a top other than ONE
ExecFails(st, op) == op.name = "Assert" /\ st[1] # ONE

\* Hasher::hash: the address of the hash computation
HashAddr(h) == h + 1

\* ------------------------------------------------------------------------
\* Block stack
\* ------------------------------------------------------------------------
\* BlockStack::push: the new stack
BlockStackPush(bs, addr) ==
    LET parent_addr == IF bs = <<>> THEN ZERO ELSE bs[Len(bs)].addr
    IN  Append(bs, [addr |-> addr, parent_addr |-> parent_addr])

\* BlockStack::push: the returned parent address
ParentAddr(bs) == IF bs = <<>> THEN ZERO ELSE bs[Len(bs)].addr

\* BlockStack::pop: the remaining stack (bs is not empty)
BlockStackPop(bs) == SubSeq(bs, 1, Len(bs) - 1)

\* a pop that returns the oldest entry
PoppedBlock_oldest(bs) == bs[1]

\* BlockStack::pop: the returned BlockInfo (bs is not empty)
PoppedBlock(bs) == bs[Len(bs)]

\* ------------------------------------------------------------------------
\* Decoder trace and span cursor
\* ------------------------------------------------------------------------
\* SpanCursor::default
SpanCursorDefault == [last_op |-> Noop,
                      op_groups |-> [i \in 1..OP_BATCH_SIZE |-> WZERO],
                      group_idx |-> 0,
                      next_group_idx |-> 0]

\* DecoderTrace::new.  span_addr is not a field of the DecoderTrace of
\* trace.rs: it holds the span address that Decoder::start_span hands to the
\* trace (see append_span_start_4).
DecoderTraceNew == [span_addr |-> ZERO,
                    addr_trace |-> <<>>,
                    op_bits_trace |-> [i \in 1..NUM_OP_BITS |-> <<>>],
                    in_span_trace |-> <<>>,
                    hasher_trace |-> [i \in 1..HASHER_WIDTH |-> <<>>],
                    group_count_trace |-> <<>>,
                    span_cursor |-> SpanCursorDefault]

\* SpanCursor::set_batch
set_batch(c, op_batch) == [c EXCEPT !.op_groups = op_batch,
                                    !.group_idx = 0,
                                    !.next_group_idx = 1]
\* SpanCursor::new_span
new_span(c, first_op_batch) ==
    set_batch([c EXCEPT !.last_op = SpanOp], first_op_batch)
\* SpanCursor::respan
cursor_respan(c, op_batch) ==
    set_batch([c EXCEPT !.last_op = RespanOp], op_batch)
\* SpanCursor::set_op
set_op(c, op) == [c EXCEPT !.last_op = op]
\* SpanCursor::read_group: the cursor afterwards
read_group(c) == [c EXCEPT !.group_idx = c.next_group_idx,
                           !.next_group_idx = c.next_group_idx + 1]
\* SpanCursor::read_imm_value: the cursor afterwards
read_imm_value(c) == [c EXCEPT !.next_group_idx = c.next_group_idx + 1]

\* DecoderTrace::last_addr, last_op_group, last_group_count
last_addr(tr) == tr.addr_trace[Len(tr.addr_trace)]
last_op_group(tr) ==
    tr.hasher_trace[OP_GROUP_IDX + 1][Len(tr.hasher_trace[OP_GROUP_IDX + 1])]
last_group_count(tr) == tr.group_count_trace[Len(tr.group_count_trace)]

\* DecoderTrace::append_opcode: the op-bit columns afterwards
append_opcode(tr, op) ==
    [i \in 1..NUM_OP_BITS |-> Append(tr.op_bits_trace[i], OpBit(op, i - 1))]

\* DecoderTrace::append_row
append_row(tr, addr, op, h1, h2) ==
    [tr EXCEPT
        !.addr_trace = Append(@, addr),
        !.op_bits_trace = append_opcode(tr, op),
        !.hasher_trace = [i \in 1..HASHER_WIDTH |->
            IF i <= 4 THEN Append(@[i], h1[i])
            ELSE IF i <= 8 THEN Append(@[i], h2[i - 4])
            ELSE @[i]],
        !.in_span_trace = Append(@, ZERO),
        !.group_count_trace = Append(@, ZERO)]

\* DecoderTrace::append_span_start
append_span_start(tr, parent_addr, first_op_batch, num_span_groups) ==
    [tr EXCEPT
        !.addr_trace = Append(@, parent_addr),
        !.op_bits_trace = append_opcode(tr, SpanOp),
        !.in_span_trace = Append(@, ZERO),
        !.hasher_trace = [i \in 1..HASHER_WIDTH |->
            IF i <= OP_BATCH_SIZE THEN Append(@[i], first_op_batch[i])
            ELSE @[i]],
        !.group_count_trace = Append(@, num_span_groups),
        !.span_cursor = new_span(@, first_op_batch)]

\* op_group.as_int() - opcode wraps below zero (u64 arithmetic)
SubUnderflows(g, opcode) == Len(g) <= 1 /\ (IF g = <<>> THEN 0 ELSE g[1]) < opcode

\* Felt::new((op_group.as_int() - opcode) >> NUM_OP_BITS), the subtraction
\* wrapping modulo 2^64 when it underflows; WideDec(x) is x - 1 for x > 0,
\* the borrow from the digits above the lowest
ShiftGroup(g, opcode) ==
    LET RECURSIVE WideDec(_)
        WideDec(x) == IF x[1] > 0 THEN Strip(<<x[1] - 1>> \o Tail(x))
                      ELSE <<Radix - 1>> \o WideDec(Tail(x))
        d0 == IF g = <<>> THEN 0 ELSE g[1]
        rest == IF g = <<>> THEN <<>> ELSE Tail(g)
    IN  IF d0 >= opcode THEN rest
        ELSE IF rest = <<>>
             THEN [i \in 1..9 |-> IF i <= 8 THEN Radix - 1 ELSE 1]
             ELSE WideDec(rest)

\* DecoderTrace::append_user_op reads a group slot outside of the batch
UserOpOutOfBounds(tr) ==
    LET c0 == tr.span_cursor
        c1 == IF last_op_group(tr) = WZERO THEN read_group(c0) ELSE c0
    IN  \/ last_op_group(tr) = WZERO /\ c1.group_idx >= OP_BATCH_SIZE
        \/ /\ ~(c0.last_op.name \in {"Span", "Respan"})
           /\ has_imm(c0.last_op)
           /\ c1.next_group_idx >= OP_BATCH_SIZE

\* the op group append_user_op subtracts the opcode from
UserOpGroup(tr) ==
    IF last_op_group(tr) = WZERO
    THEN tr.span_cursor.op_groups[read_group(tr.span_cursor).group_idx + 1]
    ELSE last_op_group(tr)

\* DecoderTrace::append_user_op
append_user_op(tr, span_addr, op) ==
    LET log0 == last_op_group(tr)
        c0 == tr.span_cursor
        c1 == IF log0 = WZERO THEN read_group(c0) ELSE c0
        op_group == UserOpGroup(tr)
        new_op_group == ShiftGroup(op_group, op_code(op))
        last_op == c0.last_op
        lgc == last_group_count(tr)
        dec == \/ last_op.name \in {"Span", "Respan"}
               \/ has_imm(last_op)
               \/ log0 = WZERO
        c2 == IF ~(last_op.name \in {"Span", "Respan"}) /\ has_imm(last_op)
              THEN read_imm_value(c1) ELSE c1
    IN  [tr EXCEPT
            !.addr_trace = Append(@, span_addr),
            !.op_bits_trace = append_opcode(tr, op),
            !.in_span_trace = Append(@, ONE),
            !.hasher_trace = [i \in 1..HASHER_WIDTH |->
                IF i = OP_GROUP_IDX + 1 THEN Append(@[i], new_op_group)
                ELSE Append(@[i], WZERO)],
            !.group_count_trace = Append(@, IF dec THEN lgc - ONE ELSE lgc),
            !.span_cursor = set_op(c2, op)]

\* DecoderTrace::append_user_op up to the statement that panics.  The address,
\* the op bits and in_span are pushed first; read_group advances the cursor
\* before it indexes the batch; the subtraction comes before any hasher
\* column is pushed; the hasher columns are pushed before read_imm_value
\* indexes the batch, and the group count and set_op come after it.
append_user_op_until_panic(tr, span_addr, op, overflow_checks) ==
    LET log0 == last_op_group(tr)
        c0 == tr.span_cursor
        c1 == IF log0 = WZERO THEN read_group(c0) ELSE c0
        started == [tr EXCEPT
                       !.addr_trace = Append(@, span_addr),
                       !.op_bits_trace = append_opcode(tr, op),
                       !.in_span_trace = Append(@, ONE),
                       !.span_cursor = c1]
    IN  IF log0 = WZERO /\ c1.group_idx >= OP_BATCH_SIZE
        THEN started
        ELSE IF overflow_checks /\ SubUnderflows(UserOpGroup(tr), op_code(op))
        THEN started
        ELSE [started EXCEPT
                 !.hasher_trace = [i \in 1..HASHER_WIDTH |->
                     IF i = OP_GROUP_IDX + 1
                     THEN Append(@[i], ShiftGroup(UserOpGroup(tr), op_code(op)))
                     ELSE Append(@[i], WZERO)]]

\* an append_respan that counts the RESPAN as a consumed group
append_respan_dec(tr, op_batch) ==
    [tr EXCEPT
        !.addr_trace = Append(@, last_addr(tr)),
        !.op_bits_trace = append_opcode(tr, RespanOp),
        !.in_span_trace = Append(@, ONE),
        !.hasher_trace = [i \in 1..HASHER_WIDTH |->
            IF i <= OP_BATCH_SIZE THEN Append(@[i], op_batch[i]) ELSE @[i]],
        !.group_count_trace = Append(@, last_group_count(tr) - ONE),
        !.span_cursor = cursor_respan(@, op_batch)]

\* DecoderTrace::append_respan
append_respan(tr, op_batch) ==
    [tr EXCEPT
        !.addr_trace = Append(@, last_addr(tr)),
        !.op_bits_trace = append_opcode(tr, RespanOp),
        !.in_span_trace = Append(@, ONE),
        !.hasher_trace = [i \in 1..HASHER_WIDTH |->
            IF i <= OP_BATCH_SIZE THEN Append(@[i], op_batch[i]) ELSE @[i]],
        !.group_count_trace = Append(@, last_group_count(tr)),
        !.span_cursor = cursor_respan(@, op_batch)]

\* DecoderTrace::append_span_end
append_span_end(tr, span_hash, is_loop_body) ==
    LET block_flags == <<WideOf(is_loop_body), WZERO, WZERO, WZERO>>
    IN  [tr EXCEPT
            !.addr_trace = Append(@, last_addr(tr)),
            !.op_bits_trace = append_opcode(tr, EndOp),
            !.in_span_trace = Append(@, ZERO),
            !.hasher_trace = [i \in 1..HASHER_WIDTH |->
                IF i <= 4 THEN Append(@[i], span_hash[i])
                ELSE IF i <= 8 THEN Append(@[i], block_flags[i - 4])
                ELSE @[i]],
            !.group_count_trace = Append(@, last_group_count(tr))]

\* Vec::resize
Resize(column, new_len, value) ==
    [i \in 1..new_len |-> IF i <= Len(column) THEN column[i] ELSE value]

\* an into_vec that fills the op-bit columns with ZERO
into_vec_zero_bits(tr, trace_len) ==
    <<Resize(tr.addr_trace, trace_len, ZERO)>>
    \o [i \in 1..NUM_OP_BITS |-> Resize(tr.op_bits_trace[i], trace_len, ZERO)]
    \o <<Resize(tr.in_span_trace, trace_len, ZERO)>>
    \o [i \in 1..HASHER_WIDTH |->
           Resize(tr.hasher_trace[i], trace_len, WZERO)]
    \o <<Resize(tr.group_count_trace, trace_len, ZERO)>>

\* DecoderTrace::into_vec: the columns in the order they are pushed
into_vec(tr, trace_len) ==
    <<Resize(tr.addr_trace, trace_len, ZERO)>>
    \o [i \in 1..NUM_OP_BITS |->
           Resize(tr.op_bits_trace[i], trace_len, OpBit(HaltOp, i - 1))]
    \o <<Resize(tr.in_span_trace, trace_len, ZERO)>>
    \o [i \in 1..HASHER_WIDTH |->
           Resize(tr.hasher_trace[i], trace_len, WZERO)]
    \o <<Resize(tr.group_count_trace, trace_len, ZERO)>>

\* Decoder::get_group_count
RECURSIVE SumGroups(_, _)
SumGroups(batches, i) ==
    IF i > Len(batches) THEN 0
    ELSE batches[i].num_groups + SumGroups(batches, i + 1)
get_group_count(batches) == SumGroups(batches, 1)

\* ------------------------------------------------------------------------
\* Decoder
\* ------------------------------------------------------------------------
\* Decoder::new
DecoderNew == [block_stack |-> <<>>, trace |-> DecoderTraceNew]

ZeroWord == <<WZERO, WZERO, WZERO, WZERO>>

\* Decoder::start_join
start_join(d, p, n, addr) ==
    [block_stack |-> BlockStackPush(d.block_stack, addr),
     trace |-> append_row(d.trace, ParentAddr(d.block_stack), JoinOp,
                          BlockHash(FirstChild(p, n)),
                          BlockHash(SecondChild(p, n)))]

\* Decoder::end_join (the block stack is not empty)
end_join(d, n) ==
    [block_stack |-> BlockStackPop(d.block_stack),
     trace |-> append_row(d.trace, PoppedBlock(d.block_stack).addr, EndOp,
                          BlockHash(n), ZeroWord)]

\* a start_split that appends no row
start_split_norow(d, p, n, addr, condition) ==
    [block_stack |-> BlockStackPush(d.block_stack, addr), trace |-> d.trace]

\* Decoder::start_split
start_split(d, p, n, addr, condition) ==
    [block_stack |-> BlockStackPush(d.block_stack, addr),
     trace |-> append_row(d.trace, ParentAddr(d.block_stack), SplitOp,
                          BlockHash(FirstChild(p, n)),
                          BlockHash(SecondChild(p, n)))]

\* Decoder::end_split (the block stack is not empty)
end_split(d, n) ==
    [block_stack |-> BlockStackPop(d.block_stack),
     trace |-> append_row(d.trace, PoppedBlock(d.block_stack).addr, EndOp,
                          BlockHash(n), ZeroWord)]

\* Decoder::start_loop
start_loop(d, n, condition) == d
\* Decoder::repeat
repeat(d, n) == d
\* Decoder::end_loop
end_loop(d, n) == d

\* DecoderTrace::append_span_start as Decoder::start_span calls it, with the
\* span's address as second argument.  The sources hold no function of these
\* four parameters; it is taken to write the Span row as the
\* append_span_start of trace.rs does and to keep the span's address for the
\* rows of the span's operations.
append_span_start_4(tr, parent_addr, addr, first_op_batch, num_op_groups) ==
    [append_span_start(tr, parent_addr, first_op_batch, num_op_groups)
        EXCEPT !.span_addr = addr]

\* DecoderTrace::append_user_op as Decoder::execute_user_op calls it, with
\* the operation and two counters.  The sources hold no function of these
\* three parameters; it is taken to write the row as the append_user_op of
\* trace.rs does, at the address of the span that was started last.
append_user_op_3(tr, op, num_groups_left, group_ops_left) ==
    append_user_op(tr, tr.span_addr, op)

\* Decoder::start_span
start_span(d, batches, addr) ==
    LET parent_addr == ParentAddr(d.block_stack)
        first_op_batch == batches[1].groups
        num_op_groups == get_group_count(batches)
    IN  [block_stack |-> BlockStackPush(d.block_stack, addr),
         trace |-> append_span_start_4(d.trace, parent_addr, addr,
                                       first_op_batch, num_op_groups)]

\* Decoder::respan
respan(d, op_batch) ==
    [d EXCEPT !.trace = append_respan(d.trace, op_batch.groups)]

\* Decoder::execute_user_op.  The debug assertion that op is no decorator
\* holds: execute_op_batch never passes one.
execute_user_op(d, op, num_groups_left, group_ops_left) ==
    [d EXCEPT !.trace = append_user_op_3(d.trace, op, num_groups_left,
                                         group_ops_left)]

\* an end_span that leaves the span's entry on the block stack
end_span_no_pop(d, n) ==
    [block_stack |-> d.block_stack,
     trace |-> append_span_end(d.trace, BlockHash(n), ZERO)]

\* Decoder::end_span (the block stack is not empty)
end_span(d, n) ==
    [block_stack |-> BlockStackPop(d.block_stack),
     trace |-> append_span_end(d.trace, BlockHash(n), ZERO)]

\* ------------------------------------------------------------------------
\* Process: the block executor
\* ------------------------------------------------------------------------
Frame(n, pc) == [n |-> n, pc |-> pc, cond |-> 0, b |-> 0, oi |-> 0,
                 op_idx |-> 0, group_idx |-> 0, next_group_idx |-> 0,
                 left |-> 0]

Running == [status |-> "running", kind |-> "", val |-> 0]
Ok == [status |-> "ok", kind |-> "", val |-> 0]
Err(kind, val) == [status |-> "err", kind |-> kind, val |-> val]
Panic(msg) == [status |-> "panic", kind |-> msg, val |-> 0]

\* an entry of the call history: block n entered ("enter", val = the stack
\* top read at entry), left with Ok ("exit") or repeated ("repeat"); rows is
\* the number of decoder rows once the step is done, blocks and blocks_after
\* are the decoder's block stack before the step and once it is done
Event(ev, n, val, d) == [ev |-> ev, n |-> n, val |-> val,
                         rows |-> Len(d.trace.addr_trace),
                         blocks |-> decoder.block_stack,
                         blocks_after |-> d.block_stack]

\* a join that runs its second child first
join_order_reversed(p, n) == <<SecondChild(p, n), FirstChild(p, n)>>

\* execute_join_block: the children in the order they are executed
join_order(p, n) == <<FirstChild(p, n), SecondChild(p, n)>>

\* a split that takes on_false for ONE and on_true for ZERO
split_branch_swapped(p, n, condition) ==
    IF condition = ONE THEN SecondChild(p, n) ELSE FirstChild(p, n)

\* execute_split_block: the branch executed for a binary condition
split_branch(p, n, condition) ==
    IF condition = ONE THEN FirstChild(p, n) ELSE SecondChild(p, n)

\* execute_split_block: the condition selects a branch
split_binary(condition) == condition = ONE \/ condition = ZERO

\* a loop that repeats on every value other than ZERO
loop_continues_nonzero(st) == peek(st) # ZERO

\* execute_loop_block: the condition of the while loop
loop_continues(st) == peek(st) = ONE

\* ------------------------------------------------------------------------
\* Assembler: tokens. The text of an instruction is a sequence of
\* characters; its parts are the segments between the dots.
\* ------------------------------------------------------------------------
RECURSIVE SplitFrom(_, _, _, _)
SplitFrom(text, i, cur, acc) ==
    IF i > Len(text) THEN Append(acc, cur)
    ELSE IF text[i] = "." THEN SplitFrom(text, i + 1, <<>>, Append(acc, cur))
    ELSE SplitFrom(text, i + 1, Append(cur, text[i]), acc)

\* Token::parts, Token::num_parts and parts()[i], i counted from 0
parts(op) == SplitFrom(op, 1, <<>>, <<>>)
num_parts(op) == Len(parts(op))
Part(op, i) == parts(op)[i + 1]

\* the words the parsers compare segments with
Seg == [push   |-> <<"p", "u", "s", "h">>,
        pushw  |-> <<"p", "u", "s", "h", "w">>,
        popw   |-> <<"p", "o", "p", "w">>,
        loadw  |-> <<"l", "o", "a", "d", "w">>,
        storew |-> <<"s", "t", "o", "r", "e", "w">>,
        mem    |-> <<"m", "e", "m">>,
        local  |-> <<"l", "o", "c", "a", "l">>,
        adv    |-> <<"a", "d", "v">>,
        env    |-> <<"e", "n", "v">>,
        sdepth |-> <<"s", "d", "e", "p", "t", "h">>]

\* ------------------------------------------------------------------------
\* Assembler: results. A parser returns Ok(()) or an AssemblyError that
\* carries the token; a panic is neither.
\* ------------------------------------------------------------------------
NotCalled == [status |-> "none", kind |-> "", token |-> <<>>, index |-> 0,
              detail |-> ""]
ParseOk == [status |-> "ok", kind |-> "", token |-> <<>>, index |-> 0,
            detail |-> ""]
AssemblyError(kind, op, index, detail) ==
    [status |-> "err", kind |-> kind, token |-> op, index |-> index,
     detail |-> detail]
ParsePanic(msg) == [status |-> "panic", kind |-> msg, token |-> <<>>,
                    index |-> 0, detail |-> ""]

invalid_op(op) == AssemblyError("InvalidOp", op, 0, "")
unexpected_token(op, expected) == AssemblyError("UnexpectedToken", op, 0, expected)
invalid_param(op, idx) == AssemblyError("InvalidParam", op, idx, "")
invalid_param_with_reason(op, idx, reason) ==
    AssemblyError("InvalidParamWithReason", op, idx, reason)
missing_param(op) == AssemblyError("MissingParam", op, 0, "")
extra_param(op) == AssemblyError("ExtraParam", op, 0, "")

\* what a parser leaves behind: the span operations and the returned value
Parsed(ops, ret) == [ops |-> ops, ret |-> ret]

\* ------------------------------------------------------------------------
\* Assembler: parameters
\* ------------------------------------------------------------------------
HexDigits == <<"0", "1", "2", "3", "4", "5", "6", "7", "8", "9",
               "a", "b", "c", "d", "e", "f">>

\* value of the digits in the given radix, -1 when the text is empty or has
\* a character that is no digit of the radix (the texts parsed are short
\* enough to stay within u32 and u64)
RECURSIVE ParseDigits(_, _, _, _)
ParseDigits(text, radix, i, acc) ==
    IF i > Len(text) THEN acc
    ELSE IF \E d \in 1..radix : HexDigits[d] = text[i]
         THEN ParseDigits(text, radix, i + 1,
                  acc * radix + (CHOOSE d \in 1..radix : HexDigits[d] = text[i]) - 1)
         ELSE -1
from_str_radix(text, radix) ==
    IF text = <<>> THEN -1 ELSE ParseDigits(text, radix, 1, 0)

\* parse_element_param: a field element in decimal or 0x-hex
parse_element_param(op, param_idx) ==
    LET param_value == Part(op, param_idx)
        hex == Len(param_value) >= 2 /\ SubSeq(param_value, 1, 2) = <<"0", "x">>
        value == IF hex
                 THEN from_str_radix(SubSeq(param_value, 3, Len(param_value)), 16)
                 ELSE from_str_radix(param_value, 10)
    IN  IF value < 0 THEN [ret |-> invalid_param(op, param_idx), value |-> 0]
        ELSE [ret |-> ParseOk, value |-> value]

\* parse_int_param: a decimal u32 within the bounds
parse_int_param(op, param_idx, lower_bound, upper_bound) ==
    LET value == from_str_radix(Part(op, param_idx), 10)
    IN  IF value < 0 THEN [ret |-> invalid_param(op, param_idx), value |-> 0]
        ELSE IF value < lower_bound \/ value > upper_bound
        THEN [ret |-> invalid_param_with_reason(op, param_idx,
                          "parameter value must be greater than or equal to "
                              \o ToString(lower_bound)
                              \o " and less than or equal to "
                              \o ToString(upper_bound)),
              value |-> 0]
        ELSE [ret |-> ParseOk, value |-> value]

\* validate_op_len: the number of segments against the instruction's shape
validate_op_len(op, instr_parts, min_params, max_params) ==
    IF num_parts(op) < instr_parts THEN invalid_op(op)
    ELSE IF num_parts(op) < instr_parts + min_params THEN missing_param(op)
    ELSE IF num_parts(op) > instr_parts + max_params THEN extra_param(op)
    ELSE ParseOk

\* push_value: PAD for 0, PAD INCR for 1, PUSH otherwise
push_value(ops, value) ==
    IF value = ZERO THEN Append(ops, Pad)
    ELSE IF value = ONE THEN ops \o <<Pad, Incr>>
    ELSE Append(ops, Push(value))

\* n copies of an operation appended to ops
RECURSIVE PushTimes(_, _, _)
PushTimes(ops, operation, n) ==
    IF n = 0 THEN ops ELSE PushTimes(Append(ops, operation), operation, n - 1)

\* ------------------------------------------------------------------------
\* Assembler: the parsers of the I/O instructions (parsers/io_ops.rs)
\* ------------------------------------------------------------------------
ADVICE_READ_LIMIT == 16

\* parse_push_constant that pushes 0 and 1 like any other value
parse_push_constant_no_fold(ops, op) ==
    LET valid == validate_op_len(op, 1, 1, 1)
        value == parse_element_param(op, 1)
    IN  IF valid # ParseOk THEN Parsed(ops, valid)
        ELSE IF Part(op, 0) # Seg.push
        THEN Parsed(ops, unexpected_token(op, "push.{param}"))
        ELSE IF value.ret # ParseOk THEN Parsed(ops, value.ret)
        ELSE Parsed(Append(ops, Push(value.value)), ParseOk)

\* parse_push_constant
parse_push_constant(ops, op) ==
    LET valid == validate_op_len(op, 1, 1, 1)
        value == parse_element_param(op, 1)
    IN  IF valid # ParseOk THEN Parsed(ops, valid)
        ELSE IF Part(op, 0) # Seg.push
        THEN Parsed(ops, unexpected_token(op, "push.{param}"))
        ELSE IF value.ret # ParseOk THEN Parsed(ops, value.ret)
        ELSE Parsed(push_value(ops, value.value), ParseOk)

\* parse_push_env that takes every variable for sdepth
parse_push_env_any_var(ops, op) ==
    LET valid == validate_op_len(op, 3, 0, 0)
    IN  IF valid # ParseOk THEN Parsed(ops, valid)
        ELSE IF Part(op, 1) # Seg.env
        THEN Parsed(ops, unexpected_token(op, "push.env.{var}"))
        ELSE Parsed(Append(ops, Op("SDepth")), ParseOk)

\* parse_push_env
parse_push_env(ops, op) ==
    LET valid == validate_op_len(op, 3, 0, 0)
    IN  IF valid # ParseOk THEN Parsed(ops, valid)
        ELSE IF Part(op, 1) # Seg.env
        THEN Parsed(ops, unexpected_token(op, "push.env.{var}"))
        ELSE IF Part(op, 2) = Seg.sdepth
        THEN Parsed(Append(ops, Op("SDepth")), ParseOk)
        ELSE Parsed(ops, invalid_op(op))

\* parse_push_adv with the lower bound of the parameter at 0
parse_push_adv_from_zero(ops, op) ==
    LET valid == validate_op_len(op, 2, 1, 1)
        n == parse_int_param(op, 2, 0, ADVICE_READ_LIMIT)
    IN  IF valid # ParseOk THEN Parsed(ops, valid)
        ELSE IF Part(op, 1) # Seg.adv
        THEN Parsed(ops, unexpected_token(op, "push.adv.n"))
        ELSE IF n.ret # ParseOk THEN Parsed(ops, n.ret)
        ELSE Parsed(PushTimes(ops, Op("Read"), n.value), ParseOk)

\* parse_push_adv
parse_push_adv(ops, op) ==
    LET valid == validate_op_len(op, 2, 1, 1)
        n == parse_int_param(op, 2, 1, ADVICE_READ_LIMIT)
    IN  IF valid # ParseOk THEN Parsed(ops, valid)
        ELSE IF Part(op, 1) # Seg.adv
        THEN Parsed(ops, unexpected_token(op, "push.adv.n"))
        ELSE IF n.ret # ParseOk THEN Parsed(ops, n.ret)
        ELSE Parsed(PushTimes(ops, Op("Read"), n.value), ParseOk)

\* push_mem_addr that reports a bad address as a bad operation
push_mem_addr_invalid_op(ops, op) ==
    LET address == parse_element_param(op, 2)
    IN  IF address.ret # ParseOk THEN Parsed(ops, invalid_op(op))
        ELSE Parsed(Append(ops, Push(address.value)), ParseOk)

\* push_mem_addr
push_mem_addr(ops, op) ==
    LET address == parse_element_param(op, 2)
    IN  IF address.ret # ParseOk THEN Parsed(ops, address.ret)
        ELSE Parsed(Append(ops, Push(address.value)), ParseOk)

\* parse_mem_read that hands the address to push_value
parse_mem_read_folded(ops, op) ==
    LET padded == IF Part(op, 0) = Seg.pushw
                  THEN PushTimes(ops, Pad, 4) ELSE ops
        address == parse_element_param(op, 2)
    IN  IF num_parts(op) = 2
        THEN Parsed(Append(IF Part(op, 0) = Seg.pushw
                           THEN Append(padded, Op("MovUp4")) ELSE padded,
                           Op("LoadW")), ParseOk)
        ELSE IF address.ret # ParseOk THEN Parsed(padded, address.ret)
        ELSE Parsed(Append(push_value(padded, address.value), Op("LoadW")),
                    ParseOk)

\* parse_mem_read that leaves the address of pushw.mem under the four Pads
parse_mem_read_no_movup(ops, op) ==
    IF Part(op, 0) = Seg.pushw
    THEN LET padded == PushTimes(ops, Pad, 4)
             address == parse_element_param(op, 2)
         IN  IF num_parts(op) = 2
             THEN Parsed(Append(padded, Op("LoadW")), ParseOk)
             ELSE IF address.ret # ParseOk THEN Parsed(padded, address.ret)
             ELSE Parsed(padded \o <<Push(address.value), Op("LoadW")>>,
                         ParseOk)
    ELSE IF num_parts(op) = 3
    THEN LET pushed == push_mem_addr(ops, op)
         IN  IF pushed.ret # ParseOk THEN pushed
             ELSE Parsed(Append(pushed.ops, Op("LoadW")), ParseOk)
    ELSE Parsed(Append(ops, Op("LoadW")), ParseOk)

\* parse_mem_read
parse_mem_read(ops, op) ==
    IF Part(op, 0) = Seg.pushw
    THEN LET padded == PushTimes(ops, Pad, 4)
             address == parse_element_param(op, 2)
         IN  IF num_parts(op) = 2
             THEN Parsed(padded \o <<Op("MovUp4"), Op("LoadW")>>, ParseOk)
             ELSE IF address.ret # ParseOk THEN Parsed(padded, address.ret)
             ELSE Parsed(padded \o <<Push(address.value), Op("LoadW")>>,
                         ParseOk)
    ELSE IF num_parts(op) = 3
    THEN LET pushed == push_mem_addr(ops, op)
         IN  IF pushed.ret # ParseOk THEN pushed
             ELSE Parsed(Append(pushed.ops, Op("LoadW")), ParseOk)
    ELSE Parsed(Append(ops, Op("LoadW")), ParseOk)

\* parse_mem_write that drops the four elements for storew and not for popw
parse_mem_write_swapped(ops, op) ==
    LET pushed == IF num_parts(op) = 3 THEN push_mem_addr(ops, op)
                  ELSE Parsed(ops, ParseOk)
        stored == Append(pushed.ops, Op("StoreW"))
    IN  IF pushed.ret # ParseOk THEN pushed
        ELSE IF Part(op, 0) = Seg.storew
        THEN Parsed(PushTimes(stored, Drop, 4), ParseOk)
        ELSE Parsed(stored, ParseOk)

\* parse_mem_write
parse_mem_write(ops, op) ==
    LET pushed == IF num_parts(op) = 3 THEN push_mem_addr(ops, op)
                  ELSE Parsed(ops, ParseOk)
        stored == Append(pushed.ops, Op("StoreW"))
    IN  IF pushed.ret # ParseOk THEN pushed
        ELSE IF Part(op, 0) = Seg.popw
        THEN Parsed(PushTimes(stored, Drop, 4), ParseOk)
        ELSE Parsed(stored, ParseOk)

\* parse_local_read: unimplemented!()
parse_local_read(ops, op) == Parsed(ops, ParsePanic("not implemented"))

\* parse_local_write: unimplemented!()
parse_local_write(ops, op) == Parsed(ops, ParsePanic("not implemented"))

\* parse_push that names the shape of parse_push_constant in its error
parse_push_constant_shape(ops, op) ==
    IF num_parts(op) < 2 THEN Parsed(ops, invalid_op(op))
    ELSE IF Part(op, 0) # Seg.push
    THEN Parsed(ops, unexpected_token(op, "push.{param}"))
    ELSE IF Part(op, 1) = Seg.adv THEN parse_push_adv(ops, op)
    ELSE IF Part(op, 1) = Seg.env THEN parse_push_env(ops, op)
    ELSE parse_push_constant(ops, op)

\* parse_push
parse_push(ops, op) ==
    IF num_parts(op) < 2 THEN Parsed(ops, invalid_op(op))
    ELSE IF Part(op, 0) # Seg.push
    THEN Parsed(ops, unexpected_token(op, "push.{adv.n|env.var|a}"))
    ELSE IF Part(op, 1) = Seg.adv THEN parse_push_adv(ops, op)
    ELSE IF Part(op, 1) = Seg.env THEN parse_push_env(ops, op)
    ELSE parse_push_constant(ops, op)

\* parse_pushw that compares the mnemonic before it validates the length
parse_pushw_mnemonic_first(ops, op) ==
    LET valid == validate_op_len(op, 2, 0, 1)
    IN  IF Part(op, 0) # Seg.pushw
        THEN Parsed(ops, unexpected_token(op, "pushw.{mem|mem.a|local.i}"))
        ELSE IF valid # ParseOk THEN Parsed(ops, valid)
        ELSE IF Part(op, 1) = Seg.mem THEN parse_mem_read(ops, op)
        ELSE IF Part(op, 1) = Seg.local THEN parse_local_read(ops, op)
        ELSE Parsed(ops, invalid_op(op))

\* parse_pushw
parse_pushw(ops, op) ==
    LET valid == validate_op_len(op, 2, 0, 1)
    IN  IF valid # ParseOk THEN Parsed(ops, valid)
        ELSE IF Part(op, 0) # Seg.pushw
        THEN Parsed(ops, unexpected_token(op, "pushw.{mem|mem.a|local.i}"))
        ELSE IF Part(op, 1) = Seg.mem THEN parse_mem_read(ops, op)
        ELSE IF Part(op, 1) = Seg.local THEN parse_local_read(ops, op)
        ELSE Parsed(ops, invalid_op(op))

\* parse_popw
parse_popw(ops, op) ==
    LET valid == validate_op_len(op, 2, 0, 1)
    IN  IF valid # ParseOk THEN Parsed(ops, valid)
        ELSE IF Part(op, 0) # Seg.popw
        THEN Parsed(ops, unexpected_token(op, "popw.{mem|mem.a|local.i}"))
        ELSE IF Part(op, 1) = Seg.mem THEN parse_mem_write(ops, op)
        ELSE IF Part(op, 1) = Seg.local THEN parse_local_write(ops, op)
        ELSE Parsed(ops, invalid_op(op))

\* parse_loadw that does not look for a parameter after loadw.adv
parse_loadw_adv_param(ops, op) ==
    LET valid == validate_op_len(op, 2, 0, 1)
    IN  IF valid # ParseOk THEN Parsed(ops, valid)
        ELSE IF Part(op, 0) # Seg.loadw
        THEN Parsed(ops, unexpected_token(op, "loadw.{adv|mem|mem.a|local.i}"))
        ELSE IF Part(op, 1) = Seg.adv
        THEN Parsed(Append(ops, Op("ReadW")), ParseOk)
        ELSE IF Part(op, 1) = Seg.mem THEN parse_mem_read(ops, op)
        ELSE IF Part(op, 1) = Seg.local THEN parse_local_read(ops, op)
        ELSE Parsed(ops, invalid_op(op))

\* parse_loadw
parse_loadw(ops, op) ==
    LET valid == validate_op_len(op, 2, 0, 1)
    IN  IF valid # ParseOk THEN Parsed(ops, valid)
        ELSE IF Part(op, 0) # Seg.loadw
        THEN Parsed(ops, unexpected_token(op, "loadw.{adv|mem|mem.a|local.i}"))
        ELSE IF Part(op, 1) = Seg.adv
        THEN IF num_parts(op) > 2 THEN Parsed(ops, extra_param(op))
             ELSE Parsed(Append(ops, Op("ReadW")), ParseOk)
        ELSE IF Part(op, 1) = Seg.mem THEN parse_mem_read(ops, op)
        ELSE IF Part(op, 1) = Seg.local THEN parse_local_read(ops, op)
        ELSE Parsed(ops, invalid_op(op))

\* parse_storew
parse_storew(ops, op) ==
    LET valid == validate_op_len(op, 2, 0, 1)
    IN  IF valid # ParseOk THEN Parsed(ops, valid)
        ELSE IF Part(op, 0) # Seg.storew
        THEN Parsed(ops, unexpected_token(op, "storew.{mem|mem.a|local.i}"))
        ELSE IF Part(op, 1) = Seg.mem THEN parse_mem_write(ops, op)
        ELSE IF Part(op, 1) = Seg.local THEN parse_local_write(ops, op)
        ELSE Parsed(ops, invalid_op(op))

\* ------------------------------------------------------------------------
\* The units exercised on their own
\* ------------------------------------------------------------------------
\* what a call on the BlockStack returned: nothing yet, the parent address
\* (push), the BlockInfo (pop) or a panic
Returned(status, addr, parent_addr) ==
    [status |-> status, addr |-> addr, parent_addr |-> parent_addr]

\* the processor, the BlockStack and the parsers before anything runs
ProcessIdle ==
    /\ prog = <<>> /\ stack = StackNew(<<>>) /\ clk = 0 /\ hasher = 0
    /\ decoder = DecoderNew /\ ctl = <<>> /\ result = Running
    /\ log = <<>> /\ trace_out = <<>>
BlockStackIdle ==
    /\ blocks = <<>> /\ bs_out = Returned("none", ZERO, ZERO)
    /\ bs_calls = <<>>
ParsersIdle ==
    /\ span_ops = <<>> /\ token = <<>> /\ parsed = NotCalled
    /\ called = [fn |-> "", before |-> <<>>]

\* ------------------------------------------------------------------------
\* The operations the memory instructions are lowered to, on a stack (top
\* first) and a memory of words: LoadW consumes the address and overwrites
\* the top four elements, StoreW consumes the address and leaves the data,
\* MovUp4 brings the element at position 4 to the top.
\* ------------------------------------------------------------------------
\* the word at an address; a word never written is four ZEROs
MemRead(memory, addr) ==
    IF addr \in DOMAIN memory THEN memory[addr]
    ELSE <<ZERO, ZERO, ZERO, ZERO>>

MemWrite(memory, addr, word) ==
    [x \in DOMAIN memory \cup {addr} |-> IF x = addr THEN word ELSE memory[x]]

\* the effect of one operation on the stack and the memory
ExecMemOp(st, memory, op) ==
    CASE op.name = "MovUp4" ->
             [stack |-> <<st[5]>> \o SubSeq(st, 1, 4) \o SubSeq(st, 6, Len(st)),
              memory |-> memory]
      [] op.name = "LoadW" ->
             LET rest == ExecOp(st, Drop)
             IN  [stack |-> MemRead(memory, st[1]) \o SubSeq(rest, 5, Len(rest)),
                  memory |-> memory]
      [] op.name = "StoreW" ->
             [stack |-> ExecOp(st, Drop),
              memory |-> MemWrite(memory, st[1], SubSeq(st, 2, 5))]
      [] OTHER -> [stack |-> ExecOp(st, op), memory |-> memory]

\* a machine that starts on the given stack and memory: the number of
\* tokens lowered, the number of operations run, the stack and the memory
Machine(st, memory) ==
    [stack |-> st, memory |-> memory, lowered |-> 0, pc |-> 0,
     stack0 |-> st, memory0 |-> memory]

MachineIdle == source = <<>> /\ exec = Machine(<<>>, <<>>)

\* Process::new and the call execute_code_block(script.root())
Init ==
    /\ prog \in Programs
    /\ \E init \in StackInits : stack = StackNew(init)
    /\ clk = 0
    /\ hasher = 0
    /\ decoder = DecoderNew
    /\ ctl = <<Frame(1, "call")>>
    /\ result = Running
    /\ log = <<>>
    /\ trace_out = <<>>
    /\ BlockStackIdle /\ ParsersIdle /\ MachineIdle

Active == result = Running /\ ctl # <<>> /\ clk < MaxClk
Top == ctl[1]
Rest == Tail(ctl)
Batches(n) == SpanBatches[prog[n].span]

\* the value execute_code_block returns to its caller: the outermost call
\* returns Ok when nothing is left to execute
Return(rest) == IF rest = <<>> THEN Ok ELSE Running

\* an error that is dropped: the caller goes on with its next step
Abort_swallow(r) ==
    /\ result' = result
    /\ ctl' = Rest

\* an error or panic ends the execution
Abort(r) ==
    /\ result' = r
    /\ ctl' = <<>>

\* execute_code_block on a Join: start_join_block
StartJoin ==
    /\ Active /\ Top.pc = "call" /\ prog[Top.n].kind = "Join"
    /\ stack' = ExecOp(stack, Noop)
    /\ clk' = clk + 1
    /\ hasher' = hasher + 1
    /\ decoder' = start_join(decoder, prog, Top.n, HashAddr(hasher))
    /\ ctl' = <<Frame(join_order(prog, Top.n)[1], "call"),
                Frame(join_order(prog, Top.n)[2], "call"),
                Frame(Top.n, "end_join")>> \o Rest
    /\ log' = Append(log, Event("enter", Top.n, peek(stack), decoder'))
    /\ UNCHANGED <<prog, result, trace_out, unit_vars>>

\* end_join_block
EndJoin ==
    /\ Active /\ Top.pc = "end_join"
    /\ stack' = ExecOp(stack, Noop)
    /\ clk' = clk + 1
    /\ IF decoder.block_stack = <<>>
       THEN /\ Abort(Panic("block stack is empty"))
            /\ UNCHANGED <<decoder, log>>
       ELSE /\ decoder' = end_join(decoder, Top.n)
            /\ ctl' = Rest
            /\ result' = Return(Rest)
            /\ log' = Append(log, Event("exit", Top.n, peek(stack), decoder'))
    /\ UNCHANGED <<prog, hasher, trace_out, unit_vars>>

\* execute_split_block up to the call of the branch
StartSplit ==
    /\ Active /\ Top.pc = "call" /\ prog[Top.n].kind = "Split"
    /\ LET condition == peek(stack)
       IN  /\ stack' = ExecOp(stack, Drop)
           /\ clk' = clk + 1
           /\ hasher' = hasher + 1
           /\ decoder' = start_split(decoder, prog, Top.n, HashAddr(hasher),
                                     condition)
           /\ log' = Append(log, Event("enter", Top.n, condition, decoder'))
           /\ IF split_binary(condition)
              THEN /\ ctl' = <<Frame(split_branch(prog, Top.n, condition), "call"),
                               Frame(Top.n, "end_split")>> \o Rest
                   /\ UNCHANGED result
              ELSE Abort(Err("NotBinaryValue", condition))
    /\ UNCHANGED <<prog, trace_out, unit_vars>>

\* end_split_block
EndSplit ==
    /\ Active /\ Top.pc = "end_split"
    /\ stack' = ExecOp(stack, Noop)
    /\ clk' = clk + 1
    /\ IF decoder.block_stack = <<>>
       THEN /\ Abort(Panic("block stack is empty"))
            /\ UNCHANGED <<decoder, log>>
       ELSE /\ decoder' = end_split(decoder, Top.n)
            /\ ctl' = Rest
            /\ result' = Return(Rest)
            /\ log' = Append(log, Event("exit", Top.n, peek(stack), decoder'))
    /\ UNCHANGED <<prog, hasher, trace_out, unit_vars>>

\* execute_loop_block up to the first call of the body or the Noop
StartLoop ==
    /\ Active /\ Top.pc = "call" /\ prog[Top.n].kind = "Loop"
    /\ LET condition == peek(stack)
       IN  /\ decoder' = start_loop(decoder, Top.n, condition)
           /\ log' = Append(log, Event("enter", Top.n, peek(stack), decoder'))
           /\ IF condition = ONE
              THEN /\ stack' = ExecOp(stack, Drop)
                   /\ clk' = clk + 1
                   /\ ctl' = <<Frame(FirstChild(prog, Top.n), "call"),
                               [Frame(Top.n, "loop_check") EXCEPT !.cond = condition]>>
                             \o Rest
                   /\ UNCHANGED result
              ELSE IF condition = ZERO
              THEN /\ stack' = ExecOp(stack, Noop)
                   /\ clk' = clk + 1
                   /\ ctl' = <<[Frame(Top.n, "loop_end") EXCEPT !.cond = condition]>>
                             \o Rest
                   /\ UNCHANGED result
              ELSE /\ Abort(Err("NotBinaryValue", condition))
                   /\ UNCHANGED <<stack, clk>>
    /\ UNCHANGED <<prog, hasher, trace_out, unit_vars>>

\* execute_loop_block: one turn of the while loop
LoopRepeat ==
    /\ Active /\ Top.pc = "loop_check" /\ loop_continues(stack)
    /\ stack' = ExecOp(stack, Drop)
    /\ clk' = clk + 1
    /\ decoder' = repeat(decoder, Top.n)
    /\ log' = Append(log, Event("repeat", Top.n, peek(stack), decoder'))
    /\ ctl' = <<Frame(FirstChild(prog, Top.n), "call"), Top>> \o Rest
    /\ UNCHANGED <<prog, hasher, result, trace_out, unit_vars>>

\* execute_loop_block: the END part
LoopEnd ==
    /\ Active
    /\ Top.pc \in {"loop_end", "loop_check"}
    /\ Top.pc = "loop_check" => ~loop_continues(stack)
    /\ IF peek(stack) = ZERO
       THEN /\ stack' = ExecOp(stack, Drop)
            /\ clk' = clk + 1
            /\ decoder' = end_loop(decoder, Top.n)
            /\ ctl' = Rest
            /\ result' = Return(Rest)
            /\ log' = Append(log, Event("exit", Top.n, peek(stack), decoder'))
       ELSE IF Top.cond = ONE
       THEN /\ Abort(Panic("top of the stack should not be ONE"))
            /\ UNCHANGED <<stack, clk, decoder, log>>
       ELSE /\ Abort(Err("NotBinaryValue", peek(stack)))
            /\ UNCHANGED <<stack, clk, decoder, log>>
    /\ UNCHANGED <<prog, hasher, trace_out, unit_vars>>

\* execute_op_batch starts on batch b of span n
BatchFrame(n, b) == [Frame(n, "batch") EXCEPT !.b = b, !.next_group_idx = 1]

\* execute_span_block after a batch: RESPAN when batches remain, else END
BatchDone(f) ==
    IF f.b + 1 < Len(Batches(f.n)) THEN [f EXCEPT !.pc = "respan"]
    ELSE [f EXCEPT !.pc = "end_span"]

\* execute_op_batch between operations: the next operation, or the padding
\* loop `for _ in group_idx..num_groups.next_power_of_two()`
AfterOp(f) ==
    LET batch == Batches(f.n)[f.b + 1]
        missing == next_power_of_two(batch.num_groups) - f.group_idx
    IN  IF f.oi < Len(batch.ops) THEN [f EXCEPT !.pc = "batch"]
        ELSE IF missing > 0 THEN [f EXCEPT !.pc = "pad", !.left = missing]
        ELSE BatchDone(f)

\* execute_op_batch: debug_assert!(op_idx < OP_GROUP_SIZE - 1), evaluated
\* on the operation index the group change has just reset
op_index_valid(op_idx) == op_idx < OP_GROUP_SIZE - 1

\* execute_op_batch: the bookkeeping after a decoded operation
Advance(f, op) ==
    LET batch == Batches(f.n)[f.b + 1]
        ngi == IF has_imm(op) THEN f.next_group_idx + 1 ELSE f.next_group_idx
        f1 == [f EXCEPT !.oi = f.oi + 1]
    IN  IF f.op_idx = batch.op_counts[f.group_idx + 1] - 1
        THEN LET f2 == [f1 EXCEPT !.group_idx = ngi,
                                  !.next_group_idx = ngi + 1,
                                  !.op_idx = 0]
             IN  IF has_imm(op) THEN [f2 EXCEPT !.pc = "imm_noop"]
                 ELSE AfterOp(f2)
        ELSE AfterOp([f1 EXCEPT !.next_group_idx = ngi,
                                !.op_idx = f.op_idx + 1])

\* decoder.execute_user_op(op) followed by execute_op(op); f is the frame
\* the executor continues with.  execute_op_batch passes the operation
\* alone; the two counters Decoder::execute_user_op takes as well
\* (num_groups_left, group_ops_left) are drawn from the counts a batch can
\* have.  Reading a group slot outside of the
\* batch panics; op_group - opcode below zero panics in a build with
\* overflow checks and wraps otherwise.  A panic leaves the decoder with the
\* part of the row written before it.
DecodeAndExecute(op, f) ==
    \E overflow_checks \in BOOLEAN :
    \E counters \in {<<ZERO, ZERO>>, <<OP_BATCH_SIZE, OP_GROUP_SIZE>>} :
        IF \/ UserOpOutOfBounds(decoder.trace)
           \/ /\ overflow_checks
              /\ SubUnderflows(UserOpGroup(decoder.trace), op_code(op))
        THEN /\ decoder' = [decoder EXCEPT !.trace =
                               append_user_op_until_panic(
                                   @, @.span_addr, op, overflow_checks)]
             /\ Abort(Panic("decoder"))
             /\ UNCHANGED <<stack, clk>>
        ELSE IF ExecFails(stack, op)
        THEN /\ decoder' = execute_user_op(decoder, op, counters[1],
                                           counters[2])
             /\ Abort(Err("FailedAssertion", clk))
             /\ UNCHANGED <<stack, clk>>
        ELSE /\ decoder' = execute_user_op(decoder, op, counters[1],
                                           counters[2])
             /\ stack' = ExecOp(stack, op)
             /\ clk' = clk + 1
             /\ ctl' = <<f>> \o Rest
             /\ UNCHANGED result

\* execute_span_block: start_span_block, then execute_op_batch on batch 0
StartSpan ==
    /\ Active /\ Top.pc = "call" /\ prog[Top.n].kind = "Span"
    /\ stack' = ExecOp(stack, Noop)
    /\ clk' = clk + 1
    /\ hasher' = hasher + 1
    /\ decoder' = start_span(decoder, Batches(Top.n), HashAddr(hasher))
    /\ ctl' = <<AfterOp(BatchFrame(Top.n, 0))>> \o Rest
    /\ log' = Append(log, Event("enter", Top.n, peek(stack), decoder'))
    /\ UNCHANGED <<prog, result, trace_out, unit_vars>>

\* an execute_op_batch that counts a decorator as an operation of its group
UserOp_counted ==
    /\ Active /\ Top.pc = "batch"
    /\ LET op == Batches(Top.n)[Top.b + 1].ops[Top.oi + 1]
       IN  IF is_decorator(op)
           THEN /\ stack' = ExecOp(stack, op)
                /\ ctl' = <<AfterOp([Top EXCEPT !.oi = Top.oi + 1,
                                                  !.op_idx = Top.op_idx + 1])>>
                           \o Rest
                /\ UNCHANGED <<clk, decoder, result>>
           ELSE DecodeAndExecute(op, Advance(Top, op))
    /\ UNCHANGED <<prog, hasher, log, trace_out, unit_vars>>

\* execute_op_batch: one operation of the batch
UserOp ==
    /\ Active /\ Top.pc = "batch"
    /\ LET op == Batches(Top.n)[Top.b + 1].ops[Top.oi + 1]
       IN  IF is_decorator(op)
           THEN /\ stack' = ExecOp(stack, op)
                /\ ctl' = <<AfterOp([Top EXCEPT !.oi = Top.oi + 1])>> \o Rest
                /\ UNCHANGED <<clk, decoder, result>>
           ELSE DecodeAndExecute(op, Advance(Top, op))
    /\ UNCHANGED <<prog, hasher, log, trace_out, unit_vars>>

\* execute_op_batch: the Noop after a group-ending operation with an immediate
ImmNoop ==
    /\ Active /\ Top.pc = "imm_noop"
    /\ \E debug_assertions \in BOOLEAN :
          IF debug_assertions /\ ~op_index_valid(Top.op_idx)
          THEN /\ Abort(Panic("invalid op index"))
               /\ UNCHANGED <<stack, clk, decoder>>
          ELSE DecodeAndExecute(Noop, AfterOp(Top))
    /\ UNCHANGED <<prog, hasher, log, trace_out, unit_vars>>

\* execute_op_batch: one Noop of the padding loop
PadNoop ==
    /\ Active /\ Top.pc = "pad"
    /\ DecodeAndExecute(Noop, IF Top.left = 1 THEN BatchDone(Top)
                              ELSE [Top EXCEPT !.left = Top.left - 1])
    /\ UNCHANGED <<prog, hasher, log, trace_out, unit_vars>>

\* execute_span_block: RESPAN before the next batch
Respan ==
    /\ Active /\ Top.pc = "respan"
    /\ decoder' = respan(decoder, Batches(Top.n)[Top.b + 2])
    /\ stack' = ExecOp(stack, Noop)
    /\ clk' = clk + 1
    /\ ctl' = <<AfterOp(BatchFrame(Top.n, Top.b + 1))>> \o Rest
    /\ UNCHANGED <<prog, hasher, result, log, trace_out, unit_vars>>

\* end_span_block
EndSpan ==
    /\ Active /\ Top.pc = "end_span"
    /\ stack' = ExecOp(stack, Noop)
    /\ clk' = clk + 1
    /\ IF decoder.block_stack = <<>>
       THEN /\ Abort(Panic("block stack is empty"))
            /\ UNCHANGED <<decoder, log>>
       ELSE /\ decoder' = end_span(decoder, Top.n)
            /\ ctl' = Rest
            /\ result' = Return(Rest)
            /\ log' = Append(log, Event("exit", Top.n, peek(stack), decoder'))
    /\ UNCHANGED <<prog, hasher, trace_out, unit_vars>>

\* a Proxy that costs a clock cycle before the error is returned
CallProxy_executed ==
    /\ Active /\ Top.pc = "call" /\ prog[Top.n].kind = "Proxy"
    /\ Abort(Err("UnexecutableCodeBlock", Top.n))
    /\ clk' = clk + 1
    /\ UNCHANGED <<prog, stack, hasher, decoder, log, trace_out, unit_vars>>

\* execute_code_block on a Proxy
CallProxy ==
    /\ Active /\ Top.pc = "call" /\ prog[Top.n].kind = "Proxy"
    /\ Abort(Err("UnexecutableCodeBlock", Top.n))
    /\ UNCHANGED <<prog, stack, clk, hasher, decoder, log, trace_out,
                   unit_vars>>

\* Decoder::into_trace once the script has returned Ok (execute): the
\* requested length is the number of rows or more
IntoTrace ==
    /\ result = Ok /\ trace_out = <<>>
    /\ \E extra \in 0..MaxPadRows :
          trace_out' = into_vec(decoder.trace,
                                Len(decoder.trace.addr_trace) + extra)
    /\ UNCHANGED <<prog, stack, clk, hasher, decoder, ctl, result, log,
                 unit_vars>>

Next ==
    \/ StartJoin
    \/ EndJoin
    \/ StartSplit
    \/ EndSplit
    \/ StartLoop
    \/ LoopRepeat
    \/ LoopEnd
    \/ StartSpan
    \/ UserOp
    \/ ImmNoop
    \/ PadNoop
    \/ Respan
    \/ EndSpan
    \/ CallProxy
    \/ IntoTrace

Spec == Init /\ [][Next]_vars

\* ------------------------------------------------------------------------
\* BlockStack on its own: any sequence of push and pop calls
\* ------------------------------------------------------------------------
BlockStackInit ==
    ProcessIdle /\ BlockStackIdle /\ ParsersIdle /\ MachineIdle

BlockStackLive == bs_out.status # "panic" /\ Len(bs_calls) < MaxBlockCalls

\* BlockStack::push(addr)
PushBlock ==
    /\ BlockStackLive
    /\ \E addr \in 1..MaxBlockAddr :
          /\ blocks' = BlockStackPush(blocks, addr)
          /\ bs_out' = Returned("push", ZERO, ParentAddr(blocks))
          /\ bs_calls' = Append(bs_calls, [call |-> "push", addr |-> addr])
    /\ UNCHANGED <<process_vars, span_ops, token, parsed, called, source, exec>>

\* BlockStack::pop()
PopBlock ==
    /\ BlockStackLive
    /\ IF blocks = <<>>
       THEN bs_out' = Returned("panic", ZERO, ZERO) /\ blocks' = blocks
       ELSE bs_out' = Returned("pop", PoppedBlock(blocks).addr,
                               PoppedBlock(blocks).parent_addr)
            /\ blocks' = BlockStackPop(blocks)
    /\ bs_calls' = Append(bs_calls, [call |-> "pop", addr |-> ZERO])
    /\ UNCHANGED <<process_vars, span_ops, token, parsed, called, source, exec>>

BlockStackNext ==
    \/ PushBlock
    \/ PopBlock

BlockStackSpec == BlockStackInit /\ [][BlockStackNext]_vars

\* ------------------------------------------------------------------------
\* The parsers on their own: one call of one parser on a token, with some
\* operations already in span_ops
\* ------------------------------------------------------------------------
\* the texts of the tokens: segments joined by dots
RECURSIVE JoinDots(_)
JoinDots(segs) ==
    IF Len(segs) = 1 THEN segs[1]
    ELSE segs[1] \o <<".">> \o JoinDots(Tail(segs))

\* literals of field elements, each with its value
Literals == {
    [text |-> <<"0">>, value |-> 0],
    [text |-> <<"1">>, value |-> 1],
    [text |-> <<"0", "x", "0">>, value |-> 0],
    [text |-> <<"0", "x", "1">>, value |-> 1],
    [text |-> <<"4">>, value |-> 4],
    [text |-> <<"1", "6">>, value |-> 16],
    [text |-> <<"1", "7">>, value |-> 17],
    [text |-> <<"0", "x", "1", "0">>, value |-> 16],
    [text |-> <<"1", "2", "3">>, value |-> 123],
    [text |-> <<"0", "x", "7", "b">>, value |-> 123],
    [text |-> <<"1", "3", "5">>, value |-> 135] }

\* segments that are no literal of a field element
OtherTexts == {Seg.mem, Seg.local, Seg.adv, Seg.env, Seg.sdepth,
               <<"a">>, <<"a", "b", "c">>, <<"0", "x">>, <<"1", "2", "a">>}

\* the segments a token is made of, by position
SegChoices(i) ==
    IF i = 1 THEN {Seg.push, Seg.pushw, Seg.popw, Seg.loadw, Seg.storew,
                   <<"n", "o", "n", "e">>}
    ELSE IF i <= 3 THEN {l.text : l \in Literals} \cup OtherTexts
    ELSE {<<"1">>}

RECURSIVE SegLists(_)
SegLists(n) ==
    IF n = 0 THEN {<<>>}
    ELSE {Append(s, x) : s \in SegLists(n - 1), x \in SegChoices(n)}

Tokens == UNION {{JoinDots(s) : s \in SegLists(n)} : n \in 1..MaxParts}

\* the operations already in span_ops when the parser is called
RECURSIVE PriorOps(_)
PriorOps(n) ==
    IF n = 0 THEN {<<>>}
    ELSE PriorOps(n - 1) \cup
         {Append(s, x) : s \in PriorOps(n - 1), x \in {Pad, Push(ONE)}}

ParseInit ==
    /\ ProcessIdle /\ BlockStackIdle /\ MachineIdle
    /\ span_ops \in PriorOps(MaxPrior)
    /\ token \in Tokens
    /\ parsed = NotCalled
    /\ called = [fn |-> "", before |-> <<>>]

\* one call: the parser's effect on span_ops and the value it returns
CallParser(fn, r) ==
    /\ parsed = NotCalled
    /\ span_ops' = r.ops
    /\ parsed' = r.ret
    /\ called' = [fn |-> fn, before |-> span_ops]
    /\ UNCHANGED <<token, process_vars, blocks, bs_out, bs_calls, source, exec>>

ParsePush == CallParser("parse_push", parse_push(span_ops, token))
ParsePushw == CallParser("parse_pushw", parse_pushw(span_ops, token))
ParsePopw == CallParser("parse_popw", parse_popw(span_ops, token))
ParseLoadw == CallParser("parse_loadw", parse_loadw(span_ops, token))
ParseStorew == CallParser("parse_storew", parse_storew(span_ops, token))

ParseNext ==
    \/ ParsePush
    \/ ParsePushw
    \/ ParsePopw
    \/ ParseLoadw
    \/ ParseStorew

ParseSpec == ParseInit /\ [][ParseNext]_vars

\* ------------------------------------------------------------------------
\* Memory instructions lowered and run: the tokens of source are parsed one
\* after the other into span_ops, then the operations are run on a stack
\* and a memory.
\* ------------------------------------------------------------------------
\* the address literals and the memory instructions built from them
AddrTexts == {l.text : l \in {k \in Literals : k.value <= MaxMemAddr}}

MemTokens ==
    UNION {{JoinDots(<<w, Seg.mem>>)}
               \cup {JoinDots(<<w, Seg.mem, a>>) : a \in AddrTexts} :
           w \in {Seg.pushw, Seg.popw, Seg.loadw, Seg.storew}}

Sources == {<<t>> : t \in MemTokens} \cup (MemTokens \X MemTokens)

MemWords == {<<3, 4, 5, 6>>, <<1, 0, 0, 1>>}

\* stacks with an address on top of a word, at the minimum depth and deeper
MachineStacks ==
    {StackNew(<<a>> \o w \o <<7, 8>>) \o deep :
         a \in 0..MaxMemAddr, w \in MemWords, deep \in {<<>>, <<9, 9, 9, 9>>}}

Memories == {<<>>} \cup {[x \in {a} |-> <<2, 2, 3, 3>>] : a \in 0..MaxMemAddr}

LowerInit ==
    /\ ProcessIdle /\ BlockStackIdle /\ ParsersIdle
    /\ source \in Sources
    /\ \E st \in MachineStacks, memory \in Memories : exec = Machine(st, memory)

\* the token that is lowered next
NextToken == source[exec.lowered + 1]

\* the next token goes to the parser of its mnemonic
LowerWith(fn, word, r) ==
    /\ exec.lowered < Len(source)
    /\ parsed.status \in {"none", "ok"}
    /\ Part(NextToken, 0) = word
    /\ token' = NextToken
    /\ span_ops' = r.ops
    /\ parsed' = r.ret
    /\ called' = [fn |-> fn, before |-> span_ops]
    /\ exec' = [exec EXCEPT !.lowered = @ + 1]
    /\ UNCHANGED <<source, process_vars, blocks, bs_out, bs_calls>>

LowerPushw ==
    LowerWith("parse_pushw", Seg.pushw, parse_pushw(span_ops, NextToken))
LowerPopw ==
    LowerWith("parse_popw", Seg.popw, parse_popw(span_ops, NextToken))
LowerLoadw ==
    LowerWith("parse_loadw", Seg.loadw, parse_loadw(span_ops, NextToken))
LowerStorew ==
    LowerWith("parse_storew", Seg.storew, parse_storew(span_ops, NextToken))

\* every token is lowered: the next operation of span_ops is run
RunLowered ==
    /\ source # <<>> /\ exec.lowered = Len(source) /\ parsed = ParseOk
    /\ exec.pc < Len(span_ops)
    /\ LET m == ExecMemOp(exec.stack, exec.memory, span_ops[exec.pc + 1])
       IN  exec' = [exec EXCEPT !.stack = m.stack, !.memory = m.memory,
                                !.pc = @ + 1]
    /\ UNCHANGED <<source, span_ops, token, parsed, called, process_vars,
                   blocks, bs_out, bs_calls>>

LowerNext ==
    \/ LowerPushw
    \/ LowerPopw
    \/ LowerLoadw
    \/ LowerStorew
    \/ RunLowered

LowerSpec == LowerInit /\ [][LowerNext]_vars

\* ========================================================================
\* Properties
\* ========================================================================
Tr == decoder.trace
NumRows == Len(Tr.addr_trace)

\* the opcode the op-bit columns hold in row r
RowOpcode(r) ==
    Tr.op_bits_trace[1][r] + 2 * Tr.op_bits_trace[2][r]
    + 4 * Tr.op_bits_trace[3][r] + 8 * Tr.op_bits_trace[4][r]
    + 16 * Tr.op_bits_trace[5][r] + 32 * Tr.op_bits_trace[6][r]
    + 64 * Tr.op_bits_trace[7][r]

Kind(n) == prog[n].kind
Dropped(st) == IF Len(st) > MIN_STACK_DEPTH THEN Tail(st)
               ELSE Append(Tail(st), ZERO)
OnTrue(n) == n + 1
OnFalse(n) == SubtreeEnd(prog, n + 1) + 1

\* the block containing node n as a child
ParentOf(n) ==
    CHOOSE m \in 1..(n - 1) :
        \/ Kind(m) \in {"Join", "Split", "Loop"} /\ n = m + 1
        \/ Kind(m) \in {"Join", "Split"} /\ n = SubtreeEnd(prog, m + 1) + 1

\* position in the log of the entry that the exit at position j ends
EnterOf(j) ==
    CHOOSE i \in 1..(j - 1) :
        /\ log[i].ev = "enter" /\ log[i].n = log[j].n
        /\ \A k \in (i + 1)..(j - 1) :
              ~(log[k].ev = "enter" /\ log[k].n = log[j].n)

\* positions strictly between i and j of the log with event ev of block n
Between(i, j, ev, n) ==
    {k \in (i + 1)..(j - 1) : log[k].ev = ev /\ log[k].n = n}

AtCall(kind) == Active /\ Top.pc = "call" /\ Kind(Top.n) = kind

\* ---- C1 ----------------------------------------------------------------
C1_SplitStep ==
    AtCall("Split") =>
        LET c == peek(stack)
            n == Top.n
        IN  /\ stack' = Dropped(stack)
            /\ c = ONE =>
                  /\ result' = Running
                  /\ ctl' = <<Frame(OnTrue(n), "call"), Frame(n, "end_split")>>
                            \o Tail(ctl)
            /\ c = ZERO =>
                  /\ result' = Running
                  /\ ctl' = <<Frame(OnFalse(n), "call"), Frame(n, "end_split")>>
                            \o Tail(ctl)
            /\ c \notin {ZERO, ONE} =>
                  /\ result' = Err("NotBinaryValue", c)
                  /\ ctl' = <<>>

C1_OneBranch ==
    \A j \in 1..Len(log) :
        (log[j].ev = "exit" /\ Kind(log[j].n) = "Split") =>
            LET n == log[j].n
                i == EnterOf(j)
                taken == IF log[i].val = ONE THEN OnTrue(n) ELSE OnFalse(n)
                other == IF log[i].val = ONE THEN OnFalse(n) ELSE OnTrue(n)
            IN  /\ log[i].val \in {ZERO, ONE}
                /\ Cardinality(Between(i, j, "enter", taken)) = 1
                /\ Between(i, j, "enter", other) = {}

\* C1: execute_split_block removes the condition c from the stack; for
\* c = ONE it executes only on_true, for c = ZERO only on_false, for any
\* other c it returns NotBinaryValue(c) and executes neither branch; a
\* Split that returned Ok has executed exactly one branch.
C1_SplitContract == [][C1_SplitStep]_vars /\ []C1_OneBranch

C1_Witness ==
    /\ result = Ok
    /\ Kind(1) = "Split"
    /\ log[1].val = ZERO
    /\ \E k \in 1..Len(log) : log[k].ev = "enter" /\ log[k].n = OnFalse(1)

\* ---- C2 ----------------------------------------------------------------
\* C2: whenever the condition a Loop reads at entry or at a repeat check is
\* neither ZERO nor ONE, execute_loop_block returns NotBinaryValue carrying
\* that value (no panic, no Ok).
C2_LoopNotBinary ==
    [][ ( /\ Active
          /\ \/ Top.pc = "call" /\ Kind(Top.n) = "Loop"
             \/ Top.pc = "loop_check"
          /\ peek(stack) \notin {ZERO, ONE} )
        => result' = Err("NotBinaryValue", peek(stack)) ]_vars

\* ---- C3 ----------------------------------------------------------------
\* C3: the block stack is non-empty at every point strictly between the
\* start and the end of the outermost block, and empty once it has ended.
C3_BlockStack ==
    /\ (result = Running /\ log # <<>> /\ ctl # <<>>)
          => decoder.block_stack # <<>>
    /\ result = Ok => decoder.block_stack = <<>>

\* ---- C4 ----------------------------------------------------------------
\* C4: all columns of the decoder trace have the same length.
C4_ColumnsAligned ==
    /\ \A i \in 1..NUM_OP_BITS : Len(Tr.op_bits_trace[i]) = NumRows
    /\ Len(Tr.in_span_trace) = NumRows
    /\ \A i \in 1..HASHER_WIDTH : Len(Tr.hasher_trace[i]) = NumRows
    /\ Len(Tr.group_count_trace) = NumRows

\* ---- C5 ----------------------------------------------------------------
\* C5: from the Span row to the End row of a span the group count never
\* increases from one row to the next, and it is 0 in the End row.
C5_GroupCount ==
    \A r \in 2..NumRows :
        LET span_end == RowOpcode(r) = op_code(EndOp)
                        /\ Tr.in_span_trace[r - 1] = ONE
        IN  /\ (Tr.in_span_trace[r] = ONE \/ span_end) =>
                  AsIntLeq(Tr.group_count_trace[r], Tr.group_count_trace[r - 1])
            /\ span_end => Tr.group_count_trace[r] = ZERO

\* ---- C6 ----------------------------------------------------------------
\* C6: every clock cycle (execute_op of a non-decorator step) comes with
\* exactly one decoder row: the number of rows equals the number of cycles.
C6_RowPerCycle == NumRows = clk

\* ---- C7 ----------------------------------------------------------------
C7_FailStep ==
    (AtCall("Split") /\ peek(stack) \notin {ZERO, ONE}) =>
        /\ result' = Err("NotBinaryValue", peek(stack))
        /\ Len(decoder'.trace.addr_trace) = NumRows + 1
        /\ SubSeq(decoder'.trace.addr_trace, 1, NumRows) = Tr.addr_trace

C7_LastRowIsSplit ==
    ( /\ result.status = "err" /\ result.kind = "NotBinaryValue"
      /\ log # <<>>
      /\ log[Len(log)].ev = "enter" /\ Kind(log[Len(log)].n) = "Split" ) =>
        /\ NumRows = log[Len(log)].rows
        /\ NumRows >= 1
        /\ RowOpcode(NumRows) = op_code(SplitOp)

\* C7: when execute_split_block fails with NotBinaryValue the decoder trace
\* holds exactly one row more than before the call, the Split row appended
\* by start_split; no branch row and no End row follows it.
C7_SplitFailureRows == [][C7_FailStep]_vars /\ []C7_LastRowIsSplit

C7_Witness ==
    /\ result = Err("NotBinaryValue", 2)
    /\ Len(log) >= 2
    /\ Kind(log[Len(log)].n) = "Split"
    /\ RowOpcode(NumRows) = op_code(SplitOp)

\* ---- C8 ----------------------------------------------------------------
C8_LoopStep ==
    LET n == Top.n
        at_check == Active /\ Top.pc = "loop_check"
    IN  /\ (AtCall("Loop") /\ peek(stack) = ONE) =>
              /\ stack' = Dropped(stack)
              /\ clk' = clk + 1
              /\ ctl'[1] = Frame(n + 1, "call")
              /\ Tail(Tail(ctl')) = Tail(ctl)
        /\ (AtCall("Loop") /\ peek(stack) = ZERO) =>
              /\ stack' = stack
              /\ clk' = clk + 1
              /\ ctl'[1].pc = "loop_end" /\ ctl'[1].n = n
              /\ Tail(ctl') = Tail(ctl)
        /\ (at_check /\ peek(stack) = ONE) =>
              /\ stack' = Dropped(stack)
              /\ clk' = clk + 1
              /\ Len(log') = Len(log) + 1
              /\ log'[Len(log')].ev = "repeat" /\ log'[Len(log')].n = n
              /\ ctl'[1] = Frame(n + 1, "call")
              /\ Tail(ctl') = ctl
        /\ (at_check /\ peek(stack) # ONE) =>
              ctl' \in {Tail(ctl), <<>>}
        /\ (Active /\ Top.pc \in {"loop_check", "loop_end"}
                   /\ peek(stack) = ZERO) =>
              /\ stack' = Dropped(stack)
              /\ clk' = clk + 1
              /\ ctl' = Tail(ctl)
              /\ log'[Len(log')].ev = "exit" /\ log'[Len(log')].n = n

C8_BodyCount ==
    \A j \in 1..Len(log) :
        (log[j].ev = "exit" /\ Kind(log[j].n) = "Loop") =>
            LET n == log[j].n
                i == EnterOf(j)
                bodies == Between(i, j, "enter", n + 1)
                repeats == Between(i, j, "repeat", n)
            IN  IF log[i].val = ONE
                THEN /\ Cardinality(bodies) = 1 + Cardinality(repeats)
                     /\ i + 1 \in bodies
                     /\ \A k \in repeats : k + 1 \in bodies
                ELSE /\ log[i].val = ZERO
                     /\ bodies = {} /\ repeats = {}
                     /\ j = i + 1

\* C8: the body of a Loop runs once per ONE observed at the entry check and
\* the repeat checks before the first other value: not at all (one Noop
\* instead) for entry condition ZERO; each ONE is dropped before the body
\* runs, decoder.repeat precedes every re-execution, and the loop ends by
\* dropping the final ZERO.
C8_LoopIterations == [][C8_LoopStep]_vars /\ []C8_BodyCount

C8_Witness ==
    /\ result = Ok
    /\ Kind(1) = "Loop"
    /\ Cardinality({k \in 1..Len(log) : log[k].ev = "repeat" /\ log[k].n = 1}) = 1
    /\ Cardinality({k \in 1..Len(log) : log[k].ev = "enter" /\ log[k].n = 2}) = 2

\* ---- C9 ----------------------------------------------------------------
\* C9: for a Join the Join row comes first, then everything of the first
\* child, then everything of the second child, then the End row; the second
\* child starts only after the first returned Ok and the End row is
\* appended only after both returned Ok.
C9_JoinOrder ==
    \A k \in 1..Len(log) :
        LET e == log[k]
        IN  /\ (e.ev = "enter" /\ Kind(e.n) = "Join") =>
                  RowOpcode(e.rows) = op_code(JoinOp)
            /\ (e.ev = "enter" /\ e.n > 1 /\ Kind(ParentOf(e.n)) = "Join") =>
                  LET m == ParentOf(e.n)
                  IN  /\ k > 1
                      /\ IF e.n = m + 1
                         THEN /\ log[k - 1].ev = "enter" /\ log[k - 1].n = m
                              /\ e.rows >= log[k - 1].rows
                         ELSE /\ log[k - 1].ev = "exit"
                              /\ log[k - 1].n = m + 1
                              /\ e.rows >= log[k - 1].rows
            /\ (e.ev = "exit" /\ Kind(e.n) = "Join") =>
                  /\ log[k - 1].ev = "exit"
                  /\ log[k - 1].n = SubtreeEnd(prog, e.n + 1) + 1
                  /\ e.rows = log[k - 1].rows + 1
                  /\ RowOpcode(e.rows) = op_code(EndOp)

C9_Witness ==
    /\ result = Ok
    /\ Kind(1) = "Join"
    /\ Len(log) >= 6
    /\ log[Len(log)].ev = "exit" /\ log[Len(log)].n = 1

\* ---- C10 ---------------------------------------------------------------
\* the operations of a batch that are decoded: all but the decorators
UserOps(batch) == SelectSeq(batch.ops, LAMBDA o : ~is_decorator(o))

\* position among the decoded operations of the operation at position k of
\* batch.ops (k is not a decorator)
UserPos(batch, k) == Len(SelectSeq(SubSeq(batch.ops, 1, k),
                                   LAMBDA o : ~is_decorator(o)))

\* opcodes other than Noop of the decoded operations, in order
NonNoopCodes(ops) ==
    SelectSeq([i \in 1..Len(ops) |-> op_code(ops[i])], LAMBDA c : c # 0)

RECURSIVE ExpectedFrom(_, _)
\* the rows of a span after its Span row, Noops left out
ExpectedFrom(batches, i) ==
    IF i > Len(batches) THEN <<>>
    ELSE (IF i > 1 THEN <<op_code(RespanOp)>> ELSE <<>>)
         \o NonNoopCodes(UserOps(batches[i])) \o ExpectedFrom(batches, i + 1)

IsPrefix(a, b) == Len(a) <= Len(b) /\ SubSeq(b, 1, Len(a)) = a

C10_SpanRows ==
    \A i \in 1..Len(log) :
        (log[i].ev = "enter" /\ Kind(log[i].n) = "Span") =>
            LET n == log[i].n
                r0 == log[i].rows
                ends == {r \in (r0 + 1)..NumRows : Tr.in_span_trace[r] = ZERO}
                rEnd == IF ends = {} THEN NumRows + 1
                        ELSE CHOOSE r \in ends : \A q \in ends : r <= q
                codes == [r \in 1..(rEnd - 1 - r0) |-> RowOpcode(r0 + r)]
                seen == SelectSeq(codes, LAMBDA c : c # 0)
                respans == {r \in (r0 + 1)..(rEnd - 1) :
                                RowOpcode(r) = op_code(RespanOp)}
            IN  /\ RowOpcode(r0) = op_code(SpanOp)
                /\ IsPrefix(seen, ExpectedFrom(Batches(n), 1))
                /\ ends # {} =>
                      /\ RowOpcode(rEnd) = op_code(EndOp)
                      /\ seen = ExpectedFrom(Batches(n), 1)
                      /\ Cardinality(respans) = Len(Batches(n)) - 1
                /\ \A r \in respans :
                      LET m == Cardinality({q \in respans : q <= r})
                      IN  /\ Tr.addr_trace[r] = Tr.addr_trace[r - 1]
                          /\ Tr.in_span_trace[r] = ONE
                          /\ Tr.group_count_trace[r] = Tr.group_count_trace[r - 1]
                          /\ \A g \in 1..OP_BATCH_SIZE :
                                Tr.hasher_trace[g][r] = Batches(n)[m + 1].groups[g]

C10_RespanStep ==
    (Active /\ Top.pc = "respan") =>
        /\ clk' = clk + 1
        /\ stack' = stack
        /\ Len(decoder'.trace.addr_trace) = NumRows + 1

\* C10: the rows of a span with k batches are the Span row, the rows of
\* batch 0, then for each further batch one Respan row and the rows of the
\* batch, then the End row: k - 1 Respan rows, each with one executed Noop,
\* the previous row's address, in_span = 1, the new batch's op groups in
\* hasher registers 0..7 and the previous row's group count.
C10_SpanRespan == [][C10_RespanStep]_vars /\ []C10_SpanRows

C10_Witness ==
    /\ result = Ok
    /\ Len(prog) = 1 /\ Kind(1) = "Span" /\ Len(Batches(1)) = 3
    /\ Cardinality({r \in 1..NumRows : RowOpcode(r) = op_code(RespanOp)}) = 2

\* ---- C11 ---------------------------------------------------------------
RECURSIVE SumCounts(_, _)
\* number of operations in groups 0..i-1 of a batch
SumCounts(batch, i) ==
    IF i = 0 THEN 0 ELSE batch.op_counts[i] + SumCounts(batch, i - 1)

\* positions (from 1) among the decoded operations of a batch of the
\* operations that end a group
GroupEnds(batch) ==
    {SumCounts(batch, i) : i \in {j \in 1..OP_BATCH_SIZE : batch.op_counts[j] > 0}}

\* the operations that end a group and carry an immediate
ImmEnds(batch) == {k \in GroupEnds(batch) : has_imm(UserOps(batch)[k])}

\* the Noops missing to a power of two of groups
Missing(batch) == next_power_of_two(batch.num_groups) - batch.num_groups

\* the first row after r0 with in_span = 0 (NumRows + 1: none yet)
SpanEndRow(r0) ==
    LET ends == {r \in (r0 + 1)..NumRows : Tr.in_span_trace[r] = ZERO}
    IN  IF ends = {} THEN NumRows + 1
        ELSE CHOOSE r \in ends : \A q \in ends : r <= q

C11_PadRows ==
    \A i \in 1..Len(log) :
        (log[i].ev = "enter" /\ Kind(log[i].n) = "Span") =>
            LET n == log[i].n
                r0 == log[i].rows
                rEnd == SpanEndRow(r0)
                respans == {r \in (r0 + 1)..(rEnd - 1) :
                                RowOpcode(r) = op_code(RespanOp)}
                starts == {r0} \cup respans
                bounds == IF rEnd <= NumRows THEN respans \cup {rEnd}
                          ELSE respans
            IN  \A s \in starts :
                    LET later == {e \in bounds : e > s}
                        e == CHOOSE x \in later : \A y \in later : x <= y
                        batch == Batches(n)[Cardinality({q \in respans : q <= s}) + 1]
                    IN  later # {} =>
                          /\ e - s - 1 = Len(UserOps(batch))
                                          + Cardinality(ImmEnds(batch))
                                          + Missing(batch)
                          /\ \A r \in (e - Missing(batch))..(e - 1) :
                                RowOpcode(r) = op_code(Noop)

C11_PadStep ==
    (Active /\ Top.pc = "pad") =>
        /\ Top.left <= Missing(Batches(Top.n)[Top.b + 1])
        /\ result'.status # "panic"
        /\ clk' = clk + 1
        /\ stack' = stack
        /\ Len(decoder'.trace.addr_trace) = NumRows + 1

\* C11: after the operations of a batch with g groups, execute_op_batch
\* decodes and executes exactly next_power_of_two(g) - g further Noops: a
\* finished batch has that many Noop rows after the rows of its operations,
\* and every padding step decodes and executes its Noop.
C11_BatchPadding == [][C11_PadStep]_vars /\ []C11_PadRows

\* ---- C12 ---------------------------------------------------------------
RECURSIVE WithImmNoops(_, _)
\* opcodes of the operations k.. of a batch, a Noop after each operation
\* that ends its group and carries an immediate
WithImmNoops(batch, k) ==
    IF k > Len(UserOps(batch)) THEN <<>>
    ELSE <<op_code(UserOps(batch)[k])>>
         \o (IF k \in ImmEnds(batch) THEN <<op_code(Noop)>> ELSE <<>>)
         \o WithImmNoops(batch, k + 1)

\* group slots of a batch that hold an immediate value
ImmSlots(batch) ==
    {i \in 0..(batch.num_groups - 1) : batch.op_counts[i + 1] = 0}

C12_Rows ==
    \A i \in 1..Len(log) :
        (log[i].ev = "enter" /\ Kind(log[i].n) = "Span") =>
            LET n == log[i].n
                r0 == log[i].rows
                rEnd == SpanEndRow(r0)
                respans == {r \in (r0 + 1)..(rEnd - 1) :
                                RowOpcode(r) = op_code(RespanOp)}
                bounds == respans \cup {rEnd}
            IN  \A s \in {r0} \cup respans :
                    LET e == CHOOSE x \in bounds :
                                 x > s /\ \A y \in bounds : y > s => x <= y
                        batch == Batches(n)[Cardinality({q \in respans : q <= s}) + 1]
                        codes == [r \in 1..(e - 1 - s) |-> RowOpcode(s + r)]
                        expected == WithImmNoops(batch, 1)
                    IN  \A r \in 1..Len(codes) :
                            codes[r] = IF r <= Len(expected) THEN expected[r]
                                       ELSE op_code(Noop)

C12_Step ==
    /\ (Active /\ Top.pc = "batch" /\ result' = Running
           /\ ~is_decorator(Batches(Top.n)[Top.b + 1].ops[Top.oi + 1])) =>
          LET batch == Batches(Top.n)[Top.b + 1]
              k == UserPos(batch, Top.oi + 1)
          IN  /\ k \in ImmEnds(batch) <=> ctl'[1].pc = "imm_noop"
              /\ k \in GroupEnds(batch) =>
                    /\ ctl'[1].group_idx \notin ImmSlots(batch)
                    /\ ctl'[1].group_idx > Top.group_idx
              /\ k \notin GroupEnds(batch) =>
                    ctl'[1].group_idx = Top.group_idx
    /\ (Active /\ Top.pc = "imm_noop") =>
          /\ result'.status # "panic"
          /\ clk' = clk + 1
          /\ stack' = stack
          /\ Len(decoder'.trace.addr_trace) = NumRows + 1
          /\ ctl'[1].oi = Top.oi

\* C12: when the last operation of an op group carries an immediate, one
\* Noop is decoded and executed right after it, before any operation of the
\* next group; no Noop follows a group-ending operation without immediate;
\* the group pointer never stops on a slot that holds an immediate.
C12_ImmNoop == [][C12_Step]_vars /\ []C12_Rows

\* ---- C13 ---------------------------------------------------------------
\* operations with an immediate in the ninth position of their group
NinthImm(batch) ==
    {k \in ImmEnds(batch) :
        \E i \in 1..OP_BATCH_SIZE :
            batch.op_counts[i] = OP_GROUP_SIZE /\ SumCounts(batch, i) = k}

\* C13: once an operation with an immediate has been executed in the
\* ninth position of its op group, the 'invalid op index' assertion stops
\* the execution with a panic; the batch is not executed further.
C13_NinthImmPanics ==
    [][ ( /\ Active /\ Top.pc = "imm_noop"
          /\ UserPos(Batches(Top.n)[Top.b + 1], Top.oi)
                \in NinthImm(Batches(Top.n)[Top.b + 1]) )
        => result'.status = "panic" ]_vars

\* ---- C14 ---------------------------------------------------------------
\* C14: a span whose group count is not zero when it ends is stopped by an
\* assertion: append_span_end appends no End row with a group count other
\* than zero.
C14_EndGroupCountAsserted ==
    [][ ( /\ Active /\ Top.pc = "end_span"
          /\ decoder.block_stack # <<>>
          /\ last_group_count(Tr) # ZERO )
        => /\ result'.status = "panic"
           /\ decoder'.trace = Tr ]_vars

\* ---- C15 ---------------------------------------------------------------
RECURSIVE BitsValue(_, _, _)
\* sum of bit_i * 2^i over the op-bit columns i.. of row r
BitsValue(cols, r, i) ==
    IF i > NUM_OP_BITS THEN 0
    ELSE cols[i][r] * 2 ^ (i - 1) + BitsValue(cols, r, i + 1)

\* the operation the executor is about to decode
StepOp ==
    CASE Top.pc = "call" /\ Kind(Top.n) = "Join" -> JoinOp
      [] Top.pc = "call" /\ Kind(Top.n) = "Split" -> SplitOp
      [] Top.pc = "call" /\ Kind(Top.n) = "Span" -> SpanOp
      [] Top.pc = "respan" -> RespanOp
      [] Top.pc \in {"end_join", "end_split", "end_span"} -> EndOp
      [] Top.pc = "batch" -> Batches(Top.n)[Top.b + 1].ops[Top.oi + 1]
      [] OTHER -> Noop

C15_RowStep ==
    LET tr2 == decoder'.trace
        r == Len(tr2.addr_trace)
    IN  (Active /\ r = NumRows + 1) =>
            /\ \A i \in 1..NUM_OP_BITS :
                  /\ Len(tr2.op_bits_trace[i]) = r
                  /\ tr2.op_bits_trace[i][r] \in {0, 1}
            /\ BitsValue(tr2.op_bits_trace, r, 1) = op_code(StepOp)
            /\ op_code(StepOp) \in 0..(2 ^ NUM_OP_BITS - 1)

C15_Rows ==
    /\ \A r \in 1..NumRows :
          /\ \A i \in 1..NUM_OP_BITS : Tr.op_bits_trace[i][r] \in {ZERO, ONE}
          /\ Tr.in_span_trace[r] \in {ZERO, ONE}
    /\ trace_out # <<>> =>
          \A r \in 1..Len(trace_out[1]) :
              LET bits == [i \in 1..NUM_OP_BITS |-> trace_out[1 + i]]
              IN  /\ \A i \in 1..NUM_OP_BITS : bits[i][r] \in {ZERO, ONE}
                  /\ trace_out[2 + NUM_OP_BITS][r] \in {ZERO, ONE}
                  /\ BitsValue(bits, r, 1) = IF r <= NumRows THEN RowOpcode(r)
                                             ELSE op_code(HaltOp)

\* C15: in every row the op-bit columns hold 0/1 values that are the
\* binary decomposition of the opcode of the operation the row was appended
\* for, an opcode of NUM_OP_BITS bits; in_span is 0 or 1; every row after
\* the last appended one decodes to Halt.
C15_OpBits == [][C15_RowStep]_vars /\ []C15_Rows

C15_Witness ==
    /\ trace_out # <<>>
    /\ NumRows >= 4
    /\ Len(trace_out[1]) > NumRows
    /\ \E r \in 1..NumRows : RowOpcode(r) = op_code(Push(2))

\* ---- C16 ---------------------------------------------------------------
\* node n is the body of a Loop block
IsLoopBody(n) == n > 1 /\ Kind(ParentOf(n)) = "Loop"

\* the End row of a span but for hasher register 4
C16_EndRowRest ==
    \A j \in 1..Len(log) :
        (log[j].ev = "exit" /\ Kind(log[j].n) = "Span") =>
            LET r == log[j].rows
            IN  /\ r >= 2
                /\ Tr.addr_trace[r] = Tr.addr_trace[r - 1]
                /\ RowOpcode(r) = op_code(EndOp)
                /\ Tr.in_span_trace[r] = ZERO
                /\ \A i \in 1..4 : Tr.hasher_trace[i][r] = BlockHash(log[j].n)[i]
                /\ \A i \in 6..8 : Tr.hasher_trace[i][r] = WZERO
                /\ Tr.group_count_trace[r] = Tr.group_count_trace[r - 1]

\* hasher register 4 of the End row of a span is is_loop_body
C16_LoopBodyFlag ==
    \A j \in 1..Len(log) :
        (log[j].ev = "exit" /\ Kind(log[j].n) = "Span") =>
            Tr.hasher_trace[5][log[j].rows] =
                WideOf(IF IsLoopBody(log[j].n) THEN ONE ELSE ZERO)

\* C16: the End row of a span carries the previous row's address, opcode
\* End, in_span = 0, the span's hash in hasher registers 0..3, is_loop_body
\* in register 4 (ONE exactly when the span is the body of a Loop), ZERO in
\* registers 5..7 and the previous row's group count.
C16_SpanEndRow == C16_EndRowRest /\ C16_LoopBodyFlag

\* ---- C17 ---------------------------------------------------------------
\* the address the hasher gave to the block entered at position i of the
\* log: the hasher numbers the blocks it is called for from 1
AddrOfEnter(i) ==
    Cardinality({k \in 1..i : log[k].ev = "enter"
                                /\ Kind(log[k].n) \in {"Join", "Split", "Span"}})

\* position of the last entry of block m in the log
LastEnter(m) ==
    CHOOSE i \in 1..Len(log) :
        /\ log[i].ev = "enter" /\ log[i].n = m
        /\ \A k \in (i + 1)..Len(log) : ~(log[k].ev = "enter" /\ log[k].n = m)

\* a is the address of the parent block of node n, which is being
\* executed: ZERO for the root, else the address the parent was given when
\* it started.  A Loop is given no address by the code (no hash is computed
\* for it and Decoder::start_loop is empty), so no value is the address of
\* a parent that is a Loop.
ParentAddrIs(n, a) ==
    IF n = 1 THEN a = ZERO
    ELSE /\ Kind(ParentOf(n)) # "Loop"
         /\ a = AddrOfEnter(LastEnter(ParentOf(n)))

\* the Span row but for hasher registers 8..11, and the span cursor
C17_StartStep ==
    AtCall("Span") =>
        LET tr2 == decoder'.trace
            r == NumRows + 1
            batches == Batches(Top.n)
        IN  /\ Len(tr2.addr_trace) = r
            /\ ParentAddrIs(Top.n, tr2.addr_trace[r])
            /\ BitsValue(tr2.op_bits_trace, r, 1) = op_code(SpanOp)
            /\ tr2.in_span_trace[r] = ZERO
            /\ \A i \in 1..OP_BATCH_SIZE :
                  tr2.hasher_trace[i][Len(tr2.hasher_trace[i])]
                      = batches[1].groups[i]
            /\ tr2.group_count_trace[r] = SumGroups(batches, 1)
            /\ tr2.span_cursor = [last_op |-> SpanOp,
                                  op_groups |-> batches[1].groups,
                                  group_idx |-> 0,
                                  next_group_idx |-> 1]

\* hasher registers 8..11 of the Span row
C17_UpperStep ==
    AtCall("Span") =>
        \A i \in (OP_BATCH_SIZE + 1)..HASHER_WIDTH :
            LET col == decoder'.trace.hasher_trace[i]
            IN  Len(col) = NumRows + 1 /\ col[Len(col)] = WZERO

\* C17: the Span row has the address of the parent block (ZERO for a
\* root), opcode Span, in_span = 0, the op groups of the first batch in
\* hasher registers 0..7, ZERO in registers 8..11, the number of op groups
\* of all batches as group count; the span cursor is reset to last_op =
\* Span, group_idx = 0, next_group_idx = 1 over the first batch.
C17_SpanRow == [][C17_StartStep /\ C17_UpperStep]_vars

\* ---- C18 ---------------------------------------------------------------
\* row r of trace tr is a control-flow row for op at address addr with
\* hasher state h1 || h2
ControlRow(tr, r, addr, op, h1, h2) ==
    /\ Len(tr.addr_trace) = r
    /\ tr.addr_trace[r] = addr
    /\ BitsValue(tr.op_bits_trace, r, 1) = op_code(op)
    /\ tr.in_span_trace[r] = ZERO
    /\ tr.group_count_trace[r] = ZERO
    /\ \A i \in 1..4 : /\ tr.hasher_trace[i][r] = h1[i]
                       /\ tr.hasher_trace[i + 4][r] = h2[i]

C18_Step ==
    /\ (AtCall("Join") \/ AtCall("Split")) =>
          /\ ControlRow(decoder'.trace, NumRows + 1,
                        decoder'.trace.addr_trace[NumRows + 1],
                        IF Kind(Top.n) = "Join" THEN JoinOp ELSE SplitOp,
                        BlockHash(OnTrue(Top.n)), BlockHash(OnFalse(Top.n)))
          /\ ParentAddrIs(Top.n, decoder'.trace.addr_trace[NumRows + 1])
    /\ (Active /\ Top.pc \in {"end_join", "end_split"}) =>
          ControlRow(decoder'.trace, NumRows + 1,
                     AddrOfEnter(LastEnter(Top.n)), EndOp,
                     BlockHash(Top.n), <<WZERO, WZERO, WZERO, WZERO>>)

\* C18: the rows of Join, Split and their End have in_span = 0 and group
\* count 0; the start row carries the address of the parent block (ZERO at
\* the root) and the hashes of the two children; the End row carries the
\* address given to the block at its start and the block's hash followed
\* by four ZEROs.
C18_ControlRows == [][C18_Step]_vars

\* ---- C19 ---------------------------------------------------------------
\* the columns returned agree with column col of the trace on the rows it
\* holds and have value fill in all other rows
Finalized(out, col, fill) ==
    \A r \in 1..Len(out) :
        out[r] = IF r <= Len(col) THEN col[r] ELSE fill

C19_Columns ==
    trace_out # <<>> =>
        LET trace_len == Len(trace_out[1])
            bits0 == 1
            in_span0 == 1 + NUM_OP_BITS + 1
            hasher0 == in_span0
            count0 == hasher0 + HASHER_WIDTH + 1
        IN  /\ Len(trace_out) = 1 + NUM_OP_BITS + 1 + HASHER_WIDTH + 1
            /\ trace_len >= NumRows
            /\ \A c \in 1..Len(trace_out) : Len(trace_out[c]) = trace_len
            /\ Finalized(trace_out[1], Tr.addr_trace, ZERO)
            /\ \A i \in 1..NUM_OP_BITS :
                  /\ Len(Tr.op_bits_trace[i]) = NumRows
                  /\ Finalized(trace_out[bits0 + i], Tr.op_bits_trace[i],
                               (op_code(HaltOp) \div 2 ^ (i - 1)) % 2)
            /\ Len(Tr.in_span_trace) = NumRows
            /\ Finalized(trace_out[in_span0], Tr.in_span_trace, ZERO)
            /\ \A i \in 1..HASHER_WIDTH :
                  /\ Finalized(trace_out[hasher0 + i], Tr.hasher_trace[i], WZERO)
                  /\ \A r \in (NumRows + 1)..trace_len :
                        trace_out[hasher0 + i][r] = WZERO
            /\ Len(Tr.group_count_trace) = NumRows
            /\ Finalized(trace_out[count0], Tr.group_count_trace, ZERO)

\* C19: into_vec returns 1 + NUM_OP_BITS + 1 + HASHER_WIDTH + 1 columns in
\* the order address, op bits, in_span, hasher state, group count, each of
\* length trace_len; the appended rows are unchanged and every later row
\* has address ZERO, the bits of Halt, in_span ZERO, hasher state ZERO and
\* group count ZERO.
C19_IntoVec == C19_Columns

C19_Witness ==
    /\ trace_out # <<>>
    /\ Len(trace_out[1]) = NumRows + MaxPadRows
    /\ NumRows >= 3
    /\ \E r \in 1..NumRows : Tr.in_span_trace[r] = ONE
    /\ \E r \in 1..NumRows : Tr.group_count_trace[r] # ZERO

\* ---- C20 ---------------------------------------------------------------
\* the ExecutionError the step being executed can return
StepError ==
    CASE Top.pc = "call" /\ Kind(Top.n) = "Proxy" ->
             Err("UnexecutableCodeBlock", Top.n)
      [] Top.pc = "batch" -> Err("FailedAssertion", clk)
      [] OTHER -> Err("NotBinaryValue", peek(stack))

Exits(l) == {k \in 1..Len(l) : l[k].ev = "exit"}

\* number of End rows in the trace
EndRows == Cardinality({r \in 1..NumRows : RowOpcode(r) = op_code(EndOp)})

\* the step being executed returns an ExecutionError
StepFails ==
    /\ Active
    /\ \/ AtCall("Proxy")
       \/ (AtCall("Split") \/ AtCall("Loop")) /\ peek(stack) \notin {ZERO, ONE}
       \/ Top.pc = "batch" /\ StepOp = AssertOp /\ peek(stack) # ONE

C20_ErrStep ==
    /\ StepFails => result' = StepError
    /\ (result = Running /\ result'.status = "err") =>
          LET tr2 == decoder'.trace
              rows2 == Len(tr2.addr_trace)
          IN  /\ StepFails
              /\ result' = StepError
              /\ rows2 \in {NumRows, NumRows + 1}
              /\ rows2 = NumRows + 1 =>
                    /\ BitsValue(tr2.op_bits_trace, rows2, 1) = op_code(StepOp)
                    /\ StepOp # EndOp
              /\ clk' = IF AtCall("Split") THEN clk + 1 ELSE clk
              /\ Exits(log') = Exits(log)
    /\ result.status = "err" =>
          UNCHANGED <<stack, clk, hasher, decoder, result, log, trace_out>>

C20_NoEndAfterError ==
    result.status = "err" =>
        /\ log # <<>> => ( /\ log[1].ev = "enter" /\ log[1].n = 1
                           /\ \A k \in Exits(log) : log[k].n # 1 )
        /\ EndRows = Cardinality({k \in Exits(log) : Kind(log[k].n) # "Loop"})
        /\ trace_out = <<>>

\* C20: once a nested block or an operation has returned an ExecutionError
\* no further operation is executed and no further decoder row is appended,
\* no enclosing block gets its End row, and the outermost
\* execute_code_block returns that error.
C20_ErrorPropagation == [][C20_ErrStep]_vars /\ []C20_NoEndAfterError

C20_Witness ==
    /\ result.status = "err"
    /\ Kind(1) = "Join"
    /\ \E k \in Exits(log) : log[k].n = 2
    /\ log[Len(log)].n > 2
    /\ NumRows >= 3

\* ------------------------------------------------------------------------
\* C21: BlockStack is last-in-first-out. push(a) returns the address of the
\* entry that was on top before the push, ZERO on an empty stack, and puts
\* {addr = a, parent_addr = the returned value} on top; pop returns the most
\* recently pushed entry that has not been popped; pop on an empty stack
\* panics. The entries that are pushed and not popped are derived from the
\* calls made, not from the stack.
\* ------------------------------------------------------------------------
\* addresses pushed and not yet popped after the calls, oldest first
RECURSIVE Pending(_)
Pending(cs) ==
    IF cs = <<>> THEN <<>>
    ELSE LET before == Pending(SubSeq(cs, 1, Len(cs) - 1))
             c == cs[Len(cs)]
         IN  IF c.call = "push" THEN Append(before, c.addr)
             ELSE IF before = <<>> THEN <<>>
             ELSE SubSeq(before, 1, Len(before) - 1)

\* the address on top of the pending entries, ZERO when there is none
TopPending(pend) == IF pend = <<>> THEN ZERO ELSE pend[Len(pend)]

C21_BlockStackLifo ==
    bs_calls # <<>> =>
        LET last == bs_calls[Len(bs_calls)]
            pend == Pending(SubSeq(bs_calls, 1, Len(bs_calls) - 1))
        IN  IF last.call = "push"
            THEN /\ bs_out = Returned("push", ZERO, TopPending(pend))
                 /\ blocks # <<>>
                 /\ blocks[Len(blocks)] =
                        [addr |-> last.addr, parent_addr |-> TopPending(pend)]
            ELSE IF pend = <<>>
            THEN bs_out = Returned("panic", ZERO, ZERO)
            ELSE bs_out = Returned("pop", pend[Len(pend)],
                                   TopPending(SubSeq(pend, 1, Len(pend) - 1)))

\* two pushes of different addresses, then two pops: the second pop returned
\* the entry pushed first
C21_Witness ==
    /\ Len(bs_calls) = 4
    /\ bs_calls[1].call = "push" /\ bs_calls[2].call = "push"
    /\ bs_calls[3].call = "pop" /\ bs_calls[4].call = "pop"
    /\ bs_calls[1].addr # bs_calls[2].addr
    /\ bs_out = Returned("pop", bs_calls[1].addr, ZERO)
    /\ blocks = <<>>

\* ------------------------------------------------------------------------
\* C22: execute_code_block on a Proxy block returns UnexecutableCodeBlock
\* carrying that block; no operation is executed (stack and clock keep their
\* values), no decoder row is appended and the block stack is not changed.
\* ------------------------------------------------------------------------
AtProxy == Active /\ Top.pc = "call" /\ prog[Top.n].kind = "Proxy"

C22_ProxyStep ==
    AtProxy =>
        /\ result' = Err("UnexecutableCodeBlock", Top.n)
        /\ stack' = stack
        /\ clk' = clk
        /\ hasher' = hasher
        /\ decoder'.trace = decoder.trace
        /\ decoder'.block_stack = decoder.block_stack

C22_ProxyUnexecutable == [][C22_ProxyStep]_vars

\* a Proxy below the root was reached after rows had been appended, inside
\* an open block
C22_Witness ==
    /\ result.status = "err" /\ result.kind = "UnexecutableCodeBlock"
    /\ result.val > 1
    /\ prog[result.val].kind = "Proxy"
    /\ Len(decoder.trace.addr_trace) >= 2
    /\ decoder.block_stack # <<>>

\* ------------------------------------------------------------------------
\* C23: a decorator in a batch is passed to execute_op but appends no
\* decoder row and leaves op_idx, group_idx and next_group_idx alone; the
\* groups, op counts and decoded operations of a batch are those of the
\* batch built without the decorators, so its rows and group accounting
\* are the same with or without them.
\* ------------------------------------------------------------------------
AtDecorator ==
    /\ Active /\ Top.pc = "batch"
    /\ is_decorator(Batches(Top.n)[Top.b + 1].ops[Top.oi + 1])

C23_Step ==
    AtDecorator =>
        /\ decoder' = decoder
        /\ result' = result
        /\ stack' = ExecOp(stack, Batches(Top.n)[Top.b + 1].ops[Top.oi + 1])
        /\ ctl' # <<>>
        /\ ctl'[1].pc \in {"batch", "pad"} =>
              /\ ctl'[1].op_idx = Top.op_idx
              /\ ctl'[1].group_idx = Top.group_idx
              /\ ctl'[1].next_group_idx = Top.next_group_idx

\* the batches of a span of SpanLib against those built without decorators
C23_Batches ==
    \A n \in 1..Len(prog) :
        (Kind(n) = "Span" /\ prog[n].span <= Len(SpanLib)) =>
            LET ops == SpanLib[prog[n].span]
                plain == SpanNew(SelectSeq(ops, LAMBDA o : ~is_decorator(o)))
                built == SpanBatches[prog[n].span]
            IN  /\ Len(built) = Len(plain)
                /\ \A b \in 1..Len(built) :
                      /\ UserOps(built[b]) = plain[b].ops
                      /\ built[b].groups = plain[b].groups
                      /\ built[b].op_counts = plain[b].op_counts
                      /\ built[b].num_groups = plain[b].num_groups

C23_Decorators == [][C23_Step]_vars /\ []C23_Batches

\* the span Push(2), Debug, Push(3), Debug has run to its end: its rows are
\* Span, Push, Push, the Noop after the group-ending Push, the padding Noop
\* and End
C23_Witness ==
    /\ result = Ok
    /\ Len(prog) = 1 /\ Kind(1) = "Span"
    /\ prog[1].span <= Len(SpanLib)
    /\ SpanLib[prog[1].span] = <<Push(2), Debug, Push(3), Debug>>
    /\ [r \in 1..NumRows |-> RowOpcode(r)] =
          <<op_code(SpanOp), op_code(Push(2)), op_code(Push(3)),
            op_code(Noop), op_code(Noop), op_code(EndOp)>>

\* ------------------------------------------------------------------------
\* C24: no parser of the family panics: on every token, the local variants
\* and malformed tokens included, the call returns Ok or an AssemblyError.
\* ------------------------------------------------------------------------
C24_NoPanic ==
    parsed # NotCalled => parsed.status \in {"ok", "err"}

\* ------------------------------------------------------------------------
\* C25: for every valid literal a of a field element, decimal or 0x-hex,
\* parse_push on push.a returns Ok and appends to span_ops exactly Pad when
\* a = 0, Pad Incr when a = 1 and Push(a) otherwise; the operations already
\* there stay; two spellings of one value append the same operations.
\* ------------------------------------------------------------------------
\* what push.a is lowered to
PushLowering(value) ==
    IF value = 0 THEN <<Pad>>
    ELSE IF value = 1 THEN <<Pad, Incr>>
    ELSE <<Push(value)>>

C25_PushConstant ==
    \A l \in Literals :
        (called.fn = "parse_push" /\ token = JoinDots(<<Seg.push, l.text>>)) =>
            /\ parsed = ParseOk
            /\ span_ops = called.before \o PushLowering(l.value)

\* push.0x7b was parsed after another operation: Push(123) was appended
C25_Witness ==
    /\ called.fn = "parse_push"
    /\ token = JoinDots(<<Seg.push, <<"0", "x", "7", "b">> >>)
    /\ called.before # <<>>
    /\ parsed = ParseOk
    /\ span_ops = Append(called.before, Push(123))

\* ------------------------------------------------------------------------
\* C26: parse_push on push.adv.n returns Ok and appends exactly n Read
\* operations if and only if n is a decimal integer with 1 <= n <= 16; a
\* decimal n that is 0 or above 16 returns InvalidParamWithReason for
\* parameter 2 with the reason naming the bounds 1 and 16; text that is not
\* decimal, hex included, returns InvalidParam(2); push.adv returns
\* MissingParam; more than one parameter returns ExtraParam.
\* ------------------------------------------------------------------------
\* the text is a decimal integer
IsDecimal(text) ==
    /\ text # <<>>
    /\ \A i \in 1..Len(text) :
          text[i] \in {"0", "1", "2", "3", "4", "5", "6", "7", "8", "9"}

\* the value of a literal, from the table of literals
ValueOf(text) == (CHOOSE l \in Literals : l.text = text).value

\* the token starts with the two given segments
StartsWith(op, first, second) ==
    /\ num_parts(op) >= 2
    /\ Part(op, 0) = first
    /\ Part(op, 1) = second

C26_PushAdv ==
    (called.fn = "parse_push" /\ StartsWith(token, Seg.push, Seg.adv)) =>
        IF num_parts(token) = 2 THEN parsed = missing_param(token)
        ELSE IF num_parts(token) > 3 THEN parsed = extra_param(token)
        ELSE IF ~IsDecimal(Part(token, 2)) THEN parsed = invalid_param(token, 2)
        ELSE LET n == ValueOf(Part(token, 2))
             IN  IF 1 <= n /\ n <= 16
                 THEN /\ parsed = ParseOk
                      /\ span_ops = called.before \o [i \in 1..n |-> Op("Read")]
                 ELSE parsed = invalid_param_with_reason(token, 2,
                          "parameter value must be greater than or equal to 1 and less than or equal to 16")

\* push.adv.16 was parsed after another operation: 16 Reads were appended
C26_Witness ==
    /\ called.fn = "parse_push"
    /\ token = JoinDots(<<Seg.push, Seg.adv, <<"1", "6">> >>)
    /\ called.before # <<>>
    /\ parsed = ParseOk
    /\ Len(span_ops) = Len(called.before) + 16
    /\ span_ops[Len(span_ops)] = Op("Read")

\* ------------------------------------------------------------------------
\* C27: memory reads. pushw.mem appends Pad Pad Pad Pad MovUp4 LoadW;
\* pushw.mem.a appends Pad Pad Pad Pad Push(a) LoadW; loadw.mem appends
\* LoadW; loadw.mem.a appends Push(a) LoadW; the address is Push(a) for
\* every valid literal a, 0 and 1 included.
\* ------------------------------------------------------------------------
\* the call fn(token) returned Ok and appended exactly the operations
Lowered(fn, text, appended) ==
    (called.fn = fn /\ token = text) =>
        parsed = ParseOk /\ span_ops = called.before \o appended

FourPads == <<Pad, Pad, Pad, Pad>>

C27_MemRead ==
    /\ Lowered("parse_pushw", JoinDots(<<Seg.pushw, Seg.mem>>),
               FourPads \o <<Op("MovUp4"), Op("LoadW")>>)
    /\ Lowered("parse_loadw", JoinDots(<<Seg.loadw, Seg.mem>>),
               <<Op("LoadW")>>)
    /\ \A l \in Literals :
          /\ Lowered("parse_pushw", JoinDots(<<Seg.pushw, Seg.mem, l.text>>),
                     FourPads \o <<Push(l.value), Op("LoadW")>>)
          /\ Lowered("parse_loadw", JoinDots(<<Seg.loadw, Seg.mem, l.text>>),
                     <<Push(l.value), Op("LoadW")>>)

\* pushw.mem.0 was parsed after another operation: address 0 is Push(0)
C27_Witness ==
    /\ called.fn = "parse_pushw"
    /\ token = JoinDots(<<Seg.pushw, Seg.mem, <<"0">> >>)
    /\ called.before # <<>>
    /\ parsed = ParseOk
    /\ span_ops = called.before \o FourPads \o <<Push(0), Op("LoadW")>>

\* ------------------------------------------------------------------------
\* C28: memory writes. popw.mem appends StoreW Drop Drop Drop Drop;
\* popw.mem.a appends Push(a) StoreW Drop Drop Drop Drop; storew.mem appends
\* StoreW; storew.mem.a appends Push(a) StoreW; the address is Push(a) for
\* every valid literal a, 0 and 1 included.
\* ------------------------------------------------------------------------
FourDrops == <<Drop, Drop, Drop, Drop>>

C28_MemWrite ==
    /\ Lowered("parse_popw", JoinDots(<<Seg.popw, Seg.mem>>),
               <<Op("StoreW")>> \o FourDrops)
    /\ Lowered("parse_storew", JoinDots(<<Seg.storew, Seg.mem>>),
               <<Op("StoreW")>>)
    /\ \A l \in Literals :
          /\ Lowered("parse_popw", JoinDots(<<Seg.popw, Seg.mem, l.text>>),
                     <<Push(l.value), Op("StoreW")>> \o FourDrops)
          /\ Lowered("parse_storew",
                     JoinDots(<<Seg.storew, Seg.mem, l.text>>),
                     <<Push(l.value), Op("StoreW")>>)

\* popw.mem.1 was parsed after another operation: address 1 is Push(1)
C28_Witness ==
    /\ called.fn = "parse_popw"
    /\ token = JoinDots(<<Seg.popw, Seg.mem, <<"1">> >>)
    /\ called.before # <<>>
    /\ parsed = ParseOk
    /\ span_ops = called.before \o <<Push(1), Op("StoreW")>> \o FourDrops

\* ------------------------------------------------------------------------
\* C29: the word parsers on tokens of the wrong shape
\* ------------------------------------------------------------------------
\* the word parsers: mnemonic, accepted variants, expected-shape string
WordParsers == {
    [fn |-> "parse_pushw", word |-> Seg.pushw,
     variants |-> {Seg.mem, Seg.local},
     shape |-> "pushw.{mem|mem.a|local.i}"],
    [fn |-> "parse_popw", word |-> Seg.popw,
     variants |-> {Seg.mem, Seg.local},
     shape |-> "popw.{mem|mem.a|local.i}"],
    [fn |-> "parse_loadw", word |-> Seg.loadw,
     variants |-> {Seg.mem, Seg.local, Seg.adv},
     shape |-> "loadw.{adv|mem|mem.a|local.i}"],
    [fn |-> "parse_storew", word |-> Seg.storew,
     variants |-> {Seg.mem, Seg.local},
     shape |-> "storew.{mem|mem.a|local.i}"] }

\* C29: for each of parse_pushw, parse_popw, parse_loadw and parse_storew,
\* the mnemonic alone returns InvalidOp; a token of the mnemonic whose
\* second segment is not an accepted variant returns InvalidOp; any token
\* whose first segment is not the parser's mnemonic returns UnexpectedToken
\* with the parser's expected-shape string.
C29_WordShape ==
    \A w \in WordParsers :
        called.fn = w.fn =>
            /\ token = w.word => parsed = invalid_op(token)
            /\ ( /\ num_parts(token) >= 2
                 /\ Part(token, 0) = w.word
                 /\ Part(token, 1) \notin w.variants )
               => parsed = invalid_op(token)
            /\ Part(token, 0) # w.word
               => parsed = unexpected_token(token, w.shape)

\* C29 as amended: a token of one segment returns InvalidOp and a token of
\* more than three segments returns ExtraParam, whatever the segments; a
\* token of two or three segments whose first segment is not the parser's
\* mnemonic returns UnexpectedToken with the expected-shape string; a token
\* of two or three segments of the mnemonic whose second segment is not an
\* accepted variant returns InvalidOp.
C29_WordShapeByLength ==
    \A w \in WordParsers :
        called.fn = w.fn =>
            IF num_parts(token) = 1 THEN parsed = invalid_op(token)
            ELSE IF num_parts(token) > 3 THEN parsed = extra_param(token)
            ELSE IF Part(token, 0) # w.word
            THEN parsed = unexpected_token(token, w.shape)
            ELSE Part(token, 1) \notin w.variants
                    => parsed = invalid_op(token)

\* parse_storew saw storew.adv.0: adv is a variant of loadw only
C29_Witness ==
    /\ called.fn = "parse_storew"
    /\ token = JoinDots(<<Seg.storew, Seg.adv, <<"0">> >>)
    /\ parsed = invalid_op(token)

\* ------------------------------------------------------------------------
\* C30: for each of pushw, popw, loadw and storew, X.mem.p with p not a
\* valid literal of a field element returns InvalidParam(2), and X.mem with
\* two or more parameters returns ExtraParam.
\* ------------------------------------------------------------------------
\* the text is a literal of a field element: decimal digits, or 0x and hex
\* digits
IsLiteral(text) ==
    \/ IsDecimal(text)
    \/ /\ Len(text) >= 3
       /\ text[1] = "0" /\ text[2] = "x"
       /\ \A i \in 3..Len(text) :
             text[i] \in {"0", "1", "2", "3", "4", "5", "6", "7", "8", "9",
                          "a", "b", "c", "d", "e", "f"}

C30_MemParam ==
    \A w \in WordParsers :
        (called.fn = w.fn /\ StartsWith(token, w.word, Seg.mem)) =>
            /\ (num_parts(token) = 3 /\ ~IsLiteral(Part(token, 2)))
                  => parsed = invalid_param(token, 2)
            /\ num_parts(token) >= 4 => parsed = extra_param(token)

\* parse_loadw saw loadw.mem.abc
C30_Witness ==
    /\ called.fn = "parse_loadw"
    /\ token = JoinDots(<<Seg.loadw, Seg.mem, <<"a", "b", "c">> >>)
    /\ parsed = invalid_param(token, 2)

\* ------------------------------------------------------------------------
\* C31: parse_push on push.env.sdepth appends exactly SDepth after the
\* operations already there; push.env.v for any other variable v returns
\* InvalidOp; push.env without a variable returns InvalidOp; push.env.sdepth
\* followed by a further segment returns ExtraParam.
\* ------------------------------------------------------------------------
C31_PushEnv ==
    (called.fn = "parse_push" /\ StartsWith(token, Seg.push, Seg.env)) =>
        /\ num_parts(token) = 2 => parsed = invalid_op(token)
        /\ (num_parts(token) = 3 /\ Part(token, 2) = Seg.sdepth) =>
              /\ parsed = ParseOk
              /\ span_ops = Append(called.before, Op("SDepth"))
        /\ (num_parts(token) = 3 /\ Part(token, 2) # Seg.sdepth) =>
              parsed = invalid_op(token)
        /\ (num_parts(token) > 3 /\ Part(token, 2) = Seg.sdepth) =>
              parsed = extra_param(token)

\* push.env.sdepth was parsed after another operation
C31_Witness ==
    /\ called.fn = "parse_push"
    /\ token = JoinDots(<<Seg.push, Seg.env, Seg.sdepth>>)
    /\ called.before # <<>>
    /\ parsed = ParseOk
    /\ span_ops = Append(called.before, Op("SDepth"))

\* ------------------------------------------------------------------------
\* C32: parse_loadw on loadw.adv appends exactly one ReadW; loadw.adv
\* followed by any parameter (a token of more than two segments whose first
\* two are loadw.adv) returns ExtraParam and appends nothing.
\* ------------------------------------------------------------------------
C32_LoadwAdv ==
    (called.fn = "parse_loadw" /\ StartsWith(token, Seg.loadw, Seg.adv)) =>
        IF num_parts(token) = 2
        THEN parsed = ParseOk /\ span_ops = Append(called.before, Op("ReadW"))
        ELSE parsed = extra_param(token) /\ span_ops = called.before

\* loadw.adv.0 was refused with an operation already in the span
C32_Witness ==
    /\ called.fn = "parse_loadw"
    /\ token = JoinDots(<<Seg.loadw, Seg.adv, <<"0">> >>)
    /\ called.before # <<>>
    /\ parsed = extra_param(token)
    /\ span_ops = called.before

\* ------------------------------------------------------------------------
\* C33: error cases of parse_push. The token push alone returns InvalidOp;
\* push.x with x neither adv, env nor a valid literal of a field element
\* returns InvalidParam(1); push.a.b with a neither adv nor env returns
\* ExtraParam; a token of at least two segments whose first segment is not
\* push returns UnexpectedToken with the shape push.{adv.n|env.var|a}.
\* ------------------------------------------------------------------------
C33_PushErrors ==
    called.fn = "parse_push" =>
        /\ token = Seg.push => parsed = invalid_op(token)
        /\ (/\ num_parts(token) = 2
            /\ Part(token, 0) = Seg.push
            /\ Part(token, 1) \notin {Seg.adv, Seg.env}
            /\ ~IsLiteral(Part(token, 1)))
              => parsed = invalid_param(token, 1)
        /\ (/\ num_parts(token) >= 3
            /\ Part(token, 0) = Seg.push
            /\ Part(token, 1) \notin {Seg.adv, Seg.env})
              => parsed = extra_param(token)
        /\ (num_parts(token) >= 2 /\ Part(token, 0) # Seg.push)
              => parsed = unexpected_token(token, "push.{adv.n|env.var|a}")

\* parse_push saw pushw.0
C33_Witness ==
    /\ called.fn = "parse_push"
    /\ token = JoinDots(<<Seg.pushw, <<"0">> >>)
    /\ parsed = unexpected_token(token, "push.{adv.n|env.var|a}")
    /\ span_ops = called.before

\* ------------------------------------------------------------------------
\* C34: whenever a parser of the family returns an AssemblyError, span_ops
\* is left exactly as it was before the call, for every token, pushw.mem.p
\* with an invalid address p included.
\* ------------------------------------------------------------------------
C34_ErrorLeavesSpan ==
    parsed.status = "err" => span_ops = called.before

\* ------------------------------------------------------------------------
\* C35: at every user-op row of a well-formed span, the Noops after
\* immediates and the padding Noops included, the op group g that
\* append_user_op uses satisfies g mod 2^NUM_OP_BITS = opcode of the
\* operation executed: g - opcode does not underflow, the shift removes
\* exactly that opcode, and a slot holding an immediate is never read as an
\* op group.
\* ------------------------------------------------------------------------
\* the executor is at an operation that execute_user_op decodes
AtUserOp ==
    /\ Active
    /\ Top.pc \in {"batch", "imm_noop", "pad"}
    /\ ~is_decorator(StepOp)

\* g mod 2^NUM_OP_BITS of an op group
LowOpcode(g) == IF g = <<>> THEN 0 ELSE g[1]

\* a step that appended a user-op row used a group that starts with the
\* opcode of the operation
C35_Step ==
    (AtUserOp /\ Len(decoder'.trace.addr_trace) = NumRows + 1) =>
        LowOpcode(UserOpGroup(Tr)) = op_code(StepOp)

C35_GroupMatchesOpcode == [][C35_Step]_vars

\* ------------------------------------------------------------------------
\* C36: while a batch is executed, before each operation that is decoded
\* the span cursor's group_idx and next_group_idx equal the group_idx and
\* next_group_idx tracked by execute_op_batch.
\* ------------------------------------------------------------------------
C36_CursorAgrees ==
    AtUserOp =>
        /\ Tr.span_cursor.group_idx = Top.group_idx
        /\ Tr.span_cursor.next_group_idx = Top.next_group_idx

\* ------------------------------------------------------------------------
\* C37: during the execution of a well-formed span, read_group and
\* read_imm_value never index op_groups at a position >= OP_BATCH_SIZE.
\* ------------------------------------------------------------------------
C37_CursorInBounds == AtUserOp => ~UserOpOutOfBounds(Tr)

\* ------------------------------------------------------------------------
\* C38: every user-op row, Respan row and End row of a span carries the
\* address that start_span assigned to the span, the Span row carries the
\* address of the parent; in_span is 1 on exactly the user-op and Respan
\* rows, and every Span row is immediately followed by a row with
\* in_span = 1.
\* ------------------------------------------------------------------------
\* the step appended row r with the given address and in_span flag, and
\* left the rows before it as they were
SpanRowAdded(addr, in_span) ==
    LET tr2 == decoder'.trace
        r == NumRows + 1
    IN  /\ Len(tr2.addr_trace) = r /\ Len(tr2.in_span_trace) = r
        /\ tr2.addr_trace[r] = addr
        /\ tr2.in_span_trace[r] = in_span
        /\ SubSeq(tr2.addr_trace, 1, NumRows) = Tr.addr_trace
        /\ SubSeq(tr2.in_span_trace, 1, NumRows) = Tr.in_span_trace

\* the address start_span gave to the span that is being executed
SpanAddr == AddrOfEnter(LastEnter(Top.n))

C38_Step ==
    LET added == Len(decoder'.trace.addr_trace) = NumRows + 1
    IN  /\ AtCall("Span") =>
              /\ SpanRowAdded(decoder'.trace.addr_trace[NumRows + 1], ZERO)
              /\ ParentAddrIs(Top.n, decoder'.trace.addr_trace[NumRows + 1])
        /\ (AtUserOp /\ added) => SpanRowAdded(SpanAddr, ONE)
        /\ (Active /\ Top.pc = "respan") => SpanRowAdded(SpanAddr, ONE)
        /\ (Active /\ Top.pc = "end_span" /\ added)
              => SpanRowAdded(SpanAddr, ZERO)
        /\ (Active /\ added /\ ~AtUserOp /\ Top.pc # "respan")
              => decoder'.trace.in_span_trace[NumRows + 1] = ZERO

\* the row after a Span row: the next operation decoded is a user
\* operation, and decoding it appends its row
C38_AfterSpanRow ==
    (Active /\ NumRows > 0 /\ Tr.span_cursor.last_op = SpanOp) =>
        /\ Top.pc \in {"batch", "pad"}
        /\ AtUserOp =>
              /\ ~UserOpOutOfBounds(Tr)
              /\ ~SubUnderflows(UserOpGroup(Tr), op_code(StepOp))

C38_SpanAddresses == [][C38_Step]_vars /\ []C38_AfterSpanRow

\* ------------------------------------------------------------------------
\* C39: block starts and ends are balanced. After execute_code_block
\* returns Ok for a block at any nesting depth the block stack has exactly
\* the contents it had before the call, and every pop performed by an end
\* step removes the entry pushed by the start step of the same block.
\* ------------------------------------------------------------------------
\* the exit at position j of the log left the block stack as the call found
\* it; a block that pushes at its start (Join, Split, Span) pushed one entry
\* on top of what was there, and its end popped that entry off the same
\* stack; a Loop, which pushes nothing, popped nothing
Balanced(j) ==
    LET i == EnterOf(j)
        pushed == log[i].blocks_after
        popped == log[j].blocks
    IN  /\ log[j].blocks_after = log[i].blocks
        /\ IF Kind(log[j].n) = "Loop"
           THEN pushed = log[i].blocks /\ popped = log[j].blocks_after
           ELSE /\ pushed # <<>> /\ popped # <<>>
                /\ pushed = Append(log[i].blocks, PoppedBlock(pushed))
                /\ popped = Append(log[j].blocks_after, PoppedBlock(popped))
                /\ PoppedBlock(popped) = PoppedBlock(pushed)

C39_Balanced ==
    /\ \A j \in 1..Len(log) : log[j].ev = "exit" => Balanced(j)
    /\ result = Ok => decoder.block_stack = <<>>

\* a Join of two spans inside a Join has returned Ok: the inner blocks were
\* entered with one and two entries on the block stack and left it so
C39_Witness ==
    /\ result = Ok
    /\ Len(prog) = 5 /\ Kind(1) = "Join" /\ Kind(2) = "Join"
    /\ \E j \in 1..Len(log) :
          /\ log[j].ev = "exit" /\ log[j].n = 3
          /\ Len(log[j].blocks) = 3 /\ Len(log[j].blocks_after) = 2
          /\ log[j].blocks[3] = [addr |-> 3, parent_addr |-> 2]
    /\ \E j \in 1..Len(log) :
          /\ log[j].ev = "exit" /\ log[j].n = 2
          /\ Len(log[j].blocks_after) = 1
    /\ decoder.block_stack = <<>>

\* ------------------------------------------------------------------------
\* C40: stack effect of the memory lowerings. Running the lowering of
\* pushw.mem on a stack whose top is an address a replaces a by the four
\* elements of memory[a] and leaves every element below unchanged; running
\* the lowering of popw.mem.a and then of pushw.mem.a restores the stack
\* that existed before popw.mem.a.
\* ------------------------------------------------------------------------
\* every token of the source is lowered and every operation has run
LoweredAndRun ==
    /\ source # <<>> /\ exec.lowered = Len(source)
    /\ parsed = ParseOk /\ exec.pc = Len(span_ops)

\* what position i of a stack reads: ZERO below the elements it holds
ReadsAt(st, i) == IF i <= Len(st) THEN st[i] ELSE ZERO

\* the two stacks read the same at every position
SameReads(a, b) ==
    \A i \in 1..(Len(a) + Len(b)) : ReadsAt(a, i) = ReadsAt(b, i)

C40_PushwMem ==
    (LoweredAndRun /\ source = <<JoinDots(<<Seg.pushw, Seg.mem>>)>>) =>
        LET a == exec.stack0[1]
            word == IF a \in DOMAIN exec.memory0 THEN exec.memory0[a]
                    ELSE <<ZERO, ZERO, ZERO, ZERO>>
        IN  /\ exec.stack = word \o Tail(exec.stack0)
            /\ exec.memory = exec.memory0

C40_PopwPushw ==
    \A a, b \in {l \in Literals : l.value <= MaxMemAddr} :
        (/\ a.value = b.value
         /\ LoweredAndRun
         /\ source = <<JoinDots(<<Seg.popw, Seg.mem, a.text>>),
                       JoinDots(<<Seg.pushw, Seg.mem, b.text>>)>>) =>
            /\ SameReads(exec.stack, exec.stack0)
            /\ Len(exec.stack0) >= MIN_STACK_DEPTH + 4
                  => exec.stack = exec.stack0
            /\ exec.memory[a.value] = SubSeq(exec.stack0, 1, 4)

C40_MemoryLowerings == C40_PushwMem /\ C40_PopwPushw

\* popw.mem.1 and pushw.mem.0x1 have run on a stack of twenty elements:
\* the word went to memory[1] and the stack is back
C40_Witness ==
    /\ LoweredAndRun
    /\ source = <<JoinDots(<<Seg.popw, Seg.mem, <<"1">> >>),
                  JoinDots(<<Seg.pushw, Seg.mem, <<"0", "x", "1">> >>)>>
    /\ Len(exec.stack0) = MIN_STACK_DEPTH + 4
    /\ SubSeq(exec.stack0, 1, 5) = <<0, 3, 4, 5, 6>>
    /\ exec.pc = 12
    /\ exec.memory[1] = <<0, 3, 4, 5>>
    /\ exec.stack = exec.stack0

====
